---- MODULE Spec2Model ----
(***************************************************************************)
(* Model of the per-request pipeline of remoteexec/exec.go: one request    *)
(* object that is taken through getInventoryData, newInputTree,            *)
(* setupNewAction, checkCache, missingBlobs, uploadBlobs, executeAction    *)
(* and newResp, with the inventory, the action cache, the CAS, the file    *)
(* service and the execution service as nondeterministic collaborators.    *)
(***************************************************************************)
EXTENDS Integers, Sequences, FiniteSets, TLC

VARIABLES
  pc,        \* the stage the pipeline is about to call ("done" once it returned)
  gomaReq,   \* r.gomaReq: the client's request (cache policy, requester info)
  inventory, \* what Inventory.Pick answers for this request
  f,         \* r.f: the adapter's configuration (hardening ratios, capabilities)
  r,         \* the request object: the fields of struct request
  cached,    \* the pipeline's local: second result of checkCache
  blobs,     \* the pipeline's local: the blobs missingBlobs returned
  eresp,     \* the pipeline's local: the ExecuteResponse handed to newResp
  ret,       \* what the last stage returned; the pipeline's result once pc = "done"
  calls,     \* history: the calls issued to the collaborators, in order
  ran,       \* history: the stages called so far, in order
  eg,        \* a run of uploadInputFiles: its locals, its errgroup and batch tasks
  wg         \* a run of inputFiles: its results, its WaitGroup and input tasks

\* the variables of the pipeline
stageVars == <<pc, gomaReq, inventory, f, r, cached, blobs, eresp, ret, calls, ran>>

vars == <<pc, gomaReq, inventory, f, r, cached, blobs, eresp, ret, calls, ran, eg, wg>>

-----------------------------------------------------------------------------
(* Bounds of the model.                                                    *)

\* longest platform-property list the inventory supplies
MaxInvProps == 2
\* longest list of platform-property overrides the requester supplies
MaxOverrides == 2
\* most output files, and most output directories, of an execution result
MaxOutputs == 1
\* most entries of the client's environment
MaxEnvs == 2
MaxArgs == 2
MaxCmdFiles == 2
MaxTree == 2
\* most inputs a request has beyond missingInputLimit, and a list of
\* embedded inputs beyond batchLimit
MaxExtra == 1
\* most inputs of a list of embedded inputs whose contents are of every size
MaxSized == 3
\* most inputs of a request whose inputs are followed task by task
MaxTasks == 3
\* most inputs of a request whose inputs are deduplicated
MaxDedup == 3

-----------------------------------------------------------------------------
(* Strings.  Go compares strings byte by byte; a property name is ordered  *)
(* by the bytes of its UTF-8 encoding.                                     *)

NameBytes ==
  "CFLAGS"                   :> <<67, 70, 76, 65, 71, 83>> @@
  "INCLUDE"                  :> <<73, 78, 67, 76, 85, 68, 69>> @@
  "LIB"                      :> <<76, 73, 66>> @@
  "PATH"                     :> <<80, 65, 84, 72>> @@
  "PWD"                      :> <<80, 87, 68>> @@
  "PWDX"                     :> <<80, 87, 68, 88>> @@
  "WORK_DIR"                 :> <<87, 79, 82, 75, 95, 68, 73, 82>> @@
  "InputRootAbsolutePath"    :> <<73, 110, 112, 117, 116, 82, 111, 111, 116, 65, 98, 115, 111, 108, 117, 116, 101, 80, 97, 116, 104>> @@
  "OSFamily"                 :> <<79, 83, 70, 97, 109, 105, 108, 121>> @@
  "cache-silo"               :> <<99, 97, 99, 104, 101, 45, 115, 105, 108, 111>> @@
  "container-image"          :> <<99, 111, 110, 116, 97, 105, 110, 101, 114, 45, 105, 109, 97, 103, 101>> @@
  "dockerPrivileged"         :> <<100, 111, 99, 107, 101, 114, 80, 114, 105, 118, 105, 108, 101, 103, 101, 100>> @@
  "dockerRunAsRoot"          :> <<100, 111, 99, 107, 101, 114, 82, 117, 110, 65, 115, 82, 111, 111, 116>> @@
  "dockerRuntime"            :> <<100, 111, 99, 107, 101, 114, 82, 117, 110, 116, 105, 109, 101>> @@
  "/"                        :> <<47>> @@
  "\\"                       :> <<92>> @@
  "."                        :> <<46>> @@
  "a.o"                      :> <<97, 46, 111>> @@
  "a.d"                      :> <<97, 46, 100>> @@
  "a.obj"                    :> <<97, 46, 111, 98, 106>> @@
  "gen"                      :> <<103, 101, 110>> @@
  "out"                      :> <<111, 117, 116>> @@
  "Release"                  :> <<82, 101, 108, 101, 97, 115, 101>> @@
  "classes"                  :> <<99, 108, 97, 115, 115, 101, 115>> @@
  "tmp"                      :> <<116, 109, 112>>

\* a < b for byte strings: a is a proper prefix of b, or a has the smaller
\* byte at the first position where they differ
BytesLess(a, b) ==
  \E i \in 1..Len(b) :
    /\ i <= Len(a) + 1
    /\ \A j \in 1..(i - 1) : a[j] = b[j]
    /\ IF i = Len(a) + 1 THEN TRUE ELSE a[i] < b[i]

\* the Go expression  x < y  on property names
NameLess(x, y) == BytesLess(NameBytes[x], NameBytes[y])

(* A string the code takes apart (an environment entry, a relative path,   *)
(* an argument) is the sequence of its pieces: <<"PWD", "=", "/work">> is  *)
(* the string PWD=/work.  The characters the code looks for ("=", ";", the *)
(* separators "/" and "\", a drive such as "C:") are pieces of their own.  *)

\* the bytes of a string given by its pieces
RECURSIVE PiecesBytes(_)
PiecesBytes(str) ==
  IF str = <<>> THEN <<>> ELSE NameBytes[Head(str)] \o PiecesBytes(Tail(str))

\* strings.HasPrefix(str, prefix)
HasPrefix(str, prefix) ==
  /\ Len(prefix) <= Len(str)
  /\ SubSeq(str, 1, Len(prefix)) = prefix

\* the index of the first piece c of str, 0 when there is none
IndexOf(str, c) ==
  IF \E i \in 1..Len(str) : str[i] = c
  THEN CHOOSE i \in 1..Len(str) : str[i] = c /\ \A j \in 1..(i - 1) : str[j] # c
  ELSE 0

-----------------------------------------------------------------------------
(* Errors.  An error is its gRPC status code and the place that made it;   *)
(* Nil is Go's nil error, whose status code is OK.                         *)

Nil == [code |-> "OK", msg |-> "nil"]

StatusErr(c, m) == [code |-> c, msg |-> m]

\* the codes of google.golang.org/grpc/codes other than OK
ErrorCodes ==
  {"Canceled", "Unknown", "InvalidArgument", "DeadlineExceeded", "NotFound",
   "AlreadyExists", "PermissionDenied", "ResourceExhausted",
   "FailedPrecondition", "Aborted", "OutOfRange", "Unimplemented", "Internal",
   "Unavailable", "DataLoss", "Unauthenticated"}

\* status.Code(err)
Code(e) == e.code

\* a mutant of Err: Unauthenticated is wrapped like any other error
ErrWrapUnauthenticated(e) ==
  CASE Code(e) = "OK" -> Nil
    [] Code(e) \in {"Canceled", "DeadlineExceeded", "Aborted"} -> e
    [] OTHER -> StatusErr("Internal", "exec error")

\* request.Err applied to the recorded error e
Err(e) ==
  CASE Code(e) = "OK" -> Nil
    [] Code(e) \in {"Canceled", "DeadlineExceeded", "Aborted"} -> e
    [] Code(e) = "Unauthenticated" -> e
    [] OTHER -> StatusErr("Internal", "exec error")

-----------------------------------------------------------------------------
(* Cache policy.                                                           *)

\* the values GetCachePolicy can return; OTHER_POLICY stands for a value
\* outside the four named ones
CachePolicies ==
  {"LOOKUP_ONLY", "LOOKUP_AND_STORE", "STORE_ONLY", "LOOKUP_AND_STORE_SUCCESS",
   "OTHER_POLICY"}

\* a mutant of skipCacheLookup: LOOKUP_ONLY skips the lookup as well
skipCacheLookupAlsoLookupOnly(req) ==
  req.CachePolicy \in {"STORE_ONLY", "LOOKUP_ONLY"}

skipCacheLookup(req) ==
  CASE req.CachePolicy = "STORE_ONLY" -> TRUE
    [] OTHER -> FALSE

doNotCache(req) ==
  CASE req.CachePolicy \in
         {"LOOKUP_AND_STORE", "STORE_ONLY", "LOOKUP_AND_STORE_SUCCESS"} -> FALSE
    [] OTHER -> TRUE

-----------------------------------------------------------------------------
(* Platform properties.                                                    *)

Prop(n, v) == [Name |-> n, Value |-> v]

isSafePlatformProperty(name, value) ==
  CASE name \in {"container-image", "InputRootAbsolutePath", "cache-silo"} -> TRUE
    [] name = "dockerRuntime" -> value = "runsc"
    [] OTHER -> FALSE

\* a mutant of addPlatformProperty: the property is always appended
addPlatformPropertyAlwaysAppend(props, name, value) ==
  Append(props, Prop(name, value))

\* request.addPlatformProperty on the list r.platform.Properties
addPlatformProperty(props, name, value) ==
  IF \E i \in 1..Len(props) : props[i].Name = name
  THEN LET i == CHOOSE k \in 1..Len(props) :
                  /\ props[k].Name = name
                  /\ \A j \in 1..(k - 1) : props[j].Name # name
       IN [props EXCEPT ![i].Value = value]
  ELSE Append(props, Prop(name, value))

\* a mutant of AddProp: a property the list already has keeps its value
AddPropKeepsValue(req, name, value) ==
  [req EXCEPT !.platform = IF \E i \in 1..Len(@) : @[i].Name = name THEN @
                           ELSE Append(@, Prop(name, value)),
              !.added = Append(@, Prop(name, value))]

\* addPlatformProperty on the request, with the history of the additions
AddProp(req, name, value) ==
  [req EXCEPT !.platform = addPlatformProperty(@, name, value),
              !.added = Append(@, Prop(name, value))]

RECURSIVE AddProps(_, _)
AddProps(req, props) ==
  IF props = <<>> THEN req
  ELSE AddProps(AddProp(req, Head(props).Name, Head(props).Value), Tail(props))

\* p goes before the first element of the sorted list s that it is less than
RECURSIVE InsertByName(_, _)
InsertByName(p, s) ==
  IF s = <<>> THEN <<p>>
  ELSE IF NameLess(p.Name, Head(s).Name) THEN <<p>> \o s
  ELSE <<Head(s)>> \o InsertByName(p, Tail(s))

\* sort.Slice(r.platform.Properties, Name < Name); the names of the list
\* are distinct, so the sorted list is unique
RECURSIVE SortByName(_)
SortByName(props) ==
  IF props = <<>> THEN <<>>
  ELSE InsertByName(Head(props), SortByName(Tail(props)))

-----------------------------------------------------------------------------
(* The request object and what a stage hands back.                         *)

\* gomaapi.ExecResp as created with the request
NewExecResp ==
  [Error |-> "unset", ErrorMessage |-> <<>>,
   MissingInput |-> <<>>, MissingReason |-> <<>>,
   CacheKey |-> "unset", CacheHit |-> "unset",
   ExitStatusSet |-> FALSE, ExitStatus |-> 0]

NoConfig ==
  [PathType |-> "UNKNOWN_PATH_TYPE", WindowsCross |-> FALSE,
   ClangNeedTarget |-> FALSE,
   Selector |-> "", Properties |-> <<>>, HasNsjail |-> FALSE]

\* struct request after construction; added is the history of the
\* addPlatformProperty calls, wrapper the strategy newWrapperScript chose,
\* hardening what maybeApplyHardening applied, wd the working directory
\* newWrapperScript computed, reqEnv the Env of r.gomaReq as buildArgs left
\* it, files the wrapper and input entries set in r.tree, answers what
\* rootRel and the file service answered for each input, missing the
\* missing inputs with their reasons as newInputTree or uploadBlobs collected
\* them, uploaded the filenames handed to uploadInputFiles and uploadErr
\* what it returned
NewRequest ==
  [gomaResp |-> NewExecResp,
   cmdConfig |-> NoConfig,
   cmdFiles |-> <<>>,
   filepath |-> "nil",
   platform |-> <<>>,
   added |-> <<>>,
   allowChroot |-> FALSE,
   needChroot |-> FALSE,
   rootDir |-> "",
   wrapper |-> "none",
   hardening |-> "none",
   wd |-> <<>>,
   reqEnv |-> <<>>,
   reqInputs |-> <<>>,
   answers |-> <<>>,
   missing |-> <<>>,
   uploaded |-> <<>>,
   uploadErr |-> Nil,
   envs |-> <<>>,
   args |-> <<>>,
   files |-> <<>>,
   cwd |-> <<>>,
   outputs |-> <<>>,
   outputDirs |-> <<>>,
   inputRootDigest |-> "nil",
   commandDigest |-> "nil",
   digestStore |-> <<>>,
   queried |-> <<>>,
   command |-> [Arguments |-> <<>>, EnvironmentVariables |-> <<>>,
                Platform |-> <<>>, OutputFiles |-> <<>>,
                OutputDirectories |-> <<>>, set |-> FALSE],
   actionDigest |-> "nil",
   panicked |-> FALSE,
   err |-> Nil]

\* what a stage hands back: the request after it, whether it returned the
\* response r.gomaResp, the error it returned, and the calls it issued
StageResult(req, resp, rerr, cs) ==
  [r |-> req, resp |-> resp, err |-> rerr, calls |-> cs]

Call(op, arg) == <<op, arg>>

\* a read of the byte stream, with the code it answered
Fetch(what, code) == <<"ByteStream.Read", what, code>>

AppendMessage(resp, m) == [resp EXCEPT !.ErrorMessage = Append(@, m)]

BadRequest(resp, m) ==
  AppendMessage([resp EXCEPT !.Error = "BAD_REQUEST"], m)

-----------------------------------------------------------------------------
(* getInventoryData.                                                       *)

\* descriptor.FilePathOf: the path algebra of a path type, "error" for a
\* path type that has none
FilePathOf(pathType) ==
  CASE pathType = "POSIX" -> "posixpath"
    [] pathType = "WINDOWS" -> "winpath"
    [] OTHER -> "error"

\* strings.TrimSuffix(path, ".bat") on the command paths of the model
TrimSuffixBat(path) ==
  CASE path = "C:\\bin\\clang-cl.bat" -> "C:\\bin\\clang-cl"
    [] OTHER -> path

\* Inventory.Pick failing: it fills the response and returns an error
PickFailed(resp) == BadRequest(resp, <<"compiler not found", "", "">>)

\* a mutant of the override loop: an unsafe override is reported and added
RECURSIVE addOverridesUnsafeAdded(_, _)
addOverridesUnsafeAdded(req, pps) ==
  IF pps = <<>> THEN req
  ELSE LET pp == Head(pps) IN
       IF ~isSafePlatformProperty(pp.Name, pp.Value)
       THEN addOverridesUnsafeAdded(
              AddProp([req EXCEPT !.gomaResp =
                         BadRequest(@, <<"unsafe platform property", pp.Name, pp.Value>>)],
                      pp.Name, pp.Value),
              Tail(pps))
       ELSE addOverridesUnsafeAdded(AddProp(req, pp.Name, pp.Value), Tail(pps))

\* the loop of getInventoryData over the requester's platform properties
RECURSIVE addOverrides(_, _)
addOverrides(req, pps) ==
  IF pps = <<>> THEN req
  ELSE LET pp == Head(pps) IN
       IF ~isSafePlatformProperty(pp.Name, pp.Value)
       THEN addOverrides(
              [req EXCEPT !.gomaResp =
                 BadRequest(@, <<"unsafe platform property", pp.Name, pp.Value>>)],
              Tail(pps))
       ELSE addOverrides(AddProp(req, pp.Name, pp.Value), Tail(pps))

getInventoryData(req, greq, inv) ==
  IF req.err # Nil THEN StageResult(req, FALSE, Nil, <<>>)
  ELSE
  LET pick == <<Call("Inventory.Pick", "")>> IN
  IF ~inv.pickOK
  THEN StageResult([req EXCEPT !.gomaResp = PickFailed(@)], TRUE, Nil, pick)
  ELSE
  LET cmdConfig == inv.cmdConfig
      fp == FilePathOf(cmdConfig.PathType)
  IN
  IF fp = "error"
  THEN StageResult(
         [req EXCEPT !.filepath = "nil",
                     !.gomaResp = BadRequest(@, <<"bad compiler config", "", "">>)],
         TRUE, Nil, pick)
  ELSE
  LET cross == cmdConfig.WindowsCross
      cmdFiles == IF cross
                  THEN [inv.cmdFiles EXCEPT ![1].Path = TrimSuffixBat(@)]
                  ELSE inv.cmdFiles
      r1 == [req EXCEPT !.filepath = IF cross THEN "winpath" ELSE fp,
                        !.cmdConfig = cmdConfig,
                        !.cmdFiles = cmdFiles,
                        !.platform = <<>>]
      r2 == AddProps(r1, cmdConfig.Properties)
      pps == greq.PlatformProperties
      r3 == IF Len(pps) > 0 THEN addOverrides(r2, pps) ELSE r2
  IN
  IF Len(pps) > 0 /\ Len(r3.gomaResp.ErrorMessage) > 0
  THEN StageResult(r3, TRUE, Nil, pick)
  ELSE StageResult([r3 EXCEPT !.allowChroot = cmdConfig.HasNsjail], FALSE, Nil, pick)

-----------------------------------------------------------------------------
(* Missing inputs.                                                         *)

\* the server reports at most this many missing inputs
missingInputLimit == 100

\* the list s with x put in after its first p elements
InsertAt(s, p, x) == SubSeq(s, 1, p) \o <<x>> \o SubSeq(s, p + 1, Len(s))

\* the lists of S with the elements of rare put in, one after the other,
\* at every place
RECURSIVE Inserted(_, _)
Inserted(S, rare) ==
  IF rare = <<>> THEN S
  ELSE LET next == UNION {{InsertAt(s, p, Head(rare)) : p \in 0..Len(s)} : s \in S}
       IN IF next = {} THEN {} ELSE Inserted(next, Tail(rare))

\* the place of x in the list p
PlaceOf(p, x) == CHOOSE k \in 1..Len(p) : p[k] = x

\* every order of the indices idx, up to the order of indices of one
\* value: vals[i] is the value of the index i, and every list of values
\* that an order of the indices gives is given by exactly one of these
\* orders, the one in which the indices of each value follow each other
\* as in idx.  The indices of the value that most of them have are laid
\* out first and the others put in between them at every place
Arranged(idx, vals) ==
  LET values == {vals[idx[k]] : k \in 1..Len(idx)}
      count == [v \in values |-> Cardinality({k \in 1..Len(idx) : vals[idx[k]] = v})]
      common == CHOOSE v \in values : \A w \in values : count[w] <= count[v]
      filler == SelectSeq(idx, LAMBDA i : vals[i] = common)
      rare == SelectSeq(idx, LAMBDA i : vals[i] # common)
      InOrder(p) ==
        \A a \in 1..Len(rare) : \A b \in (a + 1)..Len(rare) :
          vals[rare[a]] = vals[rare[b]] => PlaceOf(p, rare[a]) < PlaceOf(p, rare[b])
  IN IF idx = <<>> THEN {<<>>}
     ELSE {p \in Inserted({filler}, rare) : InOrder(p)}

\* rand.Shuffle(n, swap): for i from n-1 down to 1 a number j of 0..i is
\* drawn and swap(i, j) called, which leaves the list in any order of its
\* elements: every order is that of some draws.  The result is every
\* list the elements can be arranged to
randShuffle(list) ==
  {[k \in 1..Len(list) |-> list[p[k]]] \o <<>> :
     p \in Arranged([k \in 1..Len(list) |-> k] \o <<>>, list)}

\* thinOutMissing; shuffled is MissingInput as rand.Shuffle left it
thinOutMissing(resp, limit, shuffled) ==
  IF Len(resp.MissingInput) < limit THEN resp
  ELSE [resp EXCEPT !.MissingInput = SubSeq(shuffled, 1, limit)]

\* the loop of sortMissing over the inputs lo..hi: m[input.GetFilename()]
\* = i, the index counted from 0, so the last input of a name gives its
\* place
RECURSIVE orderMap(_, _, _, _)
orderMap(m, inputs, lo, hi) ==
  IF lo > hi THEN m
  ELSE IF lo = hi THEN [m EXCEPT ![inputs[lo].Filename] = lo - 1]
  ELSE LET mid == (lo + hi) \div 2
           lower == orderMap(m, inputs, lo, mid)
       IN IF DOMAIN lower = DOMAIN m THEN orderMap(lower, inputs, mid + 1, hi)
          ELSE lower

\* the elements of a set in every order
RECURSIVE Orders(_)
Orders(S) ==
  IF S = {} THEN {<<>>}
  ELSE UNION {{<<x>> \o p : p \in Orders(S \ {x})} : x \in S}

\* the greatest of the keys lo..hi
RECURSIVE greatest(_, _, _)
greatest(keys, lo, hi) ==
  IF lo = hi THEN keys[lo]
  ELSE LET mid == (lo + hi) \div 2
           a == greatest(keys, lo, mid)
           b == greatest(keys, mid + 1, hi)
       IN IF a < b THEN b ELSE a

\* the indices lo..hi, each appended to the list of the indices of its key
RECURSIVE byKey(_, _, _, _)
byKey(lists, keys, lo, hi) ==
  IF lo = hi THEN [lists EXCEPT ![keys[lo]] = Append(@, lo)]
  ELSE LET mid == (lo + hi) \div 2
           lower == byKey(lists, keys, lo, mid)
       IN IF DOMAIN lower = DOMAIN lists THEN byKey(lower, keys, mid + 1, hi)
          ELSE lower

\* the lists of the keys lo..hi one after the other
RECURSIVE inKeyOrder(_, _, _)
inKeyOrder(lists, lo, hi) ==
  IF lo = hi THEN lists[lo]
  ELSE LET mid == (lo + hi) \div 2
       IN inKeyOrder(lists, lo, mid) \o inKeyOrder(lists, mid + 1, hi)

\* the order of the indices a stable sort by keys gives: the indices of
\* the least key as they came in, then those of the next one, and so on;
\* the keys are numbers from 0 on
StableOrder(keys) ==
  IF keys = <<>> THEN <<>>
  ELSE LET top == greatest(keys, 1, Len(keys))
       IN inKeyOrder(byKey([v \in 0..top |-> <<>>], keys, 1, Len(keys)), 0, top)

\* the orders sort.Sort can leave the indices of the keys lo..hi in, whose
\* lists are in lists: those of one key after those of the keys before
\* it, and among themselves in any order.  vals[i] is the element of the
\* index i; of the orders that give the same list of elements one is taken
RECURSIVE TiedOrders(_, _, _, _)
TiedOrders(lists, vals, lo, hi) ==
  IF lo = hi
  THEN IF Len(lists[lo]) <= 1 THEN {lists[lo]} ELSE Arranged(lists[lo], vals)
  ELSE LET mid == (lo + hi) \div 2
           lower == TiedOrders(lists, vals, lo, mid)
       IN IF lower = {} THEN {}
          ELSE {a \o b : a \in lower, b \in TiedOrders(lists, vals, mid + 1, hi)}

\* the orders sort.Sort can leave the indices in: sort.Sort is not stable,
\* elements of one key come out in an order the library chooses; a list
\* of up to 6 elements is sorted by insertion, which keeps them as they
\* came in
SortOrders(keys, vals) ==
  IF Len(keys) <= 6 THEN {StableOrder(keys)}
  ELSE LET top == greatest(keys, 1, Len(keys))
       IN TiedOrders(byKey([v \in 0..top |-> <<>>], keys, 1, Len(keys)), vals, 0, top)

\* sort.Sort by Less: from[k] is the index of the pair that comes to
\* place k
SortPairs(pairs, from) ==
  [k \in 1..Len(pairs) |-> pairs[from[k]]] \o <<>>

\* the keys sortMissing sorts the first len(MissingInput) names by: what
\* the map holds for them, 0 for a name that is no input's
sortKeys(inputs, names) ==
  LET all == {names[i] : i \in 1..Len(names)}
               \cup {inputs[i].Filename : i \in 1..Len(inputs)}
      m == orderMap([fname \in all |-> 0], inputs, 1, Len(inputs))
  IN [i \in 1..Len(names) |-> m[names[i]]] \o <<>>

\* a mutant of sortMissing: the lists stay as thinOutMissing left them
sortMissingKeepsOrder(inputs, resp, from) == resp

\* sortMissing: the first len(MissingInput) elements of MissingInput and of
\* MissingReason are permuted together into the order of the request's
\* inputs; from is the order sort.Sort leaves them in
sortMissing(inputs, resp, from) ==
  LET n == Len(resp.MissingInput)
      pairs == [i \in 1..n |-> <<resp.MissingInput[i], resp.MissingReason[i]>>] \o <<>>
      sorted == SortPairs(pairs, from)
  IN [resp EXCEPT !.MissingInput = [i \in 1..n |-> sorted[i][1]],
                  !.MissingReason =
                     [i \in 1..Len(@) |-> IF i <= n THEN sorted[i][2] ELSE @[i]]]

-----------------------------------------------------------------------------
(* newWrapperScript.                                                       *)

\* winpath.ToPosix on the root directories and the command paths of the
\* model: the drive letter is dropped and the separators are flipped
ToPosix(path) ==
  CASE path \in {"C:\\src", "c:\\src", "D:\\src"} -> "/src"
    [] path = "C:\\bin\\clang-cl" -> "/bin/clang-cl"
    [] OTHER -> path

\* a mutant of HasPrefixUpperC: every root passes
HasPrefixUpperCAny(rootDir) == TRUE

\* strings.HasPrefix(strings.ToUpper(rootDir), `C:\`)
HasPrefixUpperC(rootDir) == rootDir \in {"C:\\src", "c:\\src"}

\* the root directories of the model's Windows and POSIX clients
WinRootDirs == {"C:\\src", "c:\\src", "D:\\src"}

PosixRootDirs == {"/work"}

\* the root directories inputRootDir can return under a path algebra
RootDirs(filepath) == IF filepath = "winpath" THEN WinRootDirs ELSE PosixRootDirs

\* relocatableReq: "nil" when the request is relocatable; relocatable is the
\* verdict of gccRelocatableReq / clangclRelocatableReq on the request
relocatableReq(cmdConfig, relocatable) ==
  LET name == cmdConfig.Selector IN
  CASE name \in {"gcc", "g++", "clang", "clang++"} ->
         IF relocatable THEN "nil" ELSE "error"
    [] name = "clang-cl" -> IF relocatable THEN "nil" ELSE "error"
    [] name = "javac" -> "nil"
    [] OTHER -> "error"

\* disableHardening
disableHardening(hashes, cmdFiles) ==
  \E i \in 1..Len(hashes) :
    /\ hashes[i] # ""
    /\ \E j \in 1..Len(cmdFiles) :
         /\ cmdFiles[j].Symlink = ""
         /\ cmdFiles[j].Hash = hashes[i]

\* the outcomes of  rand.Float64() < ratio , the ratio in percent
Draws(ratio) ==
  IF ratio <= 0 THEN {FALSE} ELSE IF ratio >= 100 THEN {TRUE} ELSE BOOLEAN

\* a mutant of maybeApplyHardening: the blocklist is not consulted
maybeApplyHardeningAnyFile(req, cfg, d1, d2) ==
  IF d1
  THEN IF d2
       THEN [AddProp(req, "dockerPrivileged", "true") EXCEPT !.hardening = "nsjail"]
       ELSE [AddProp(req, "dockerRuntime", "runsc") EXCEPT !.hardening = "runsc"]
  ELSE req

\* maybeApplyHardening, d1 and d2 the outcomes of its two draws
maybeApplyHardening(req, cfg, d1, d2) ==
  IF disableHardening(cfg.DisableHardenings, req.cmdFiles) THEN req
  ELSE IF d1
  THEN IF d2
       THEN [AddProp(req, "dockerPrivileged", "true") EXCEPT !.hardening = "nsjail"]
       ELSE [AddProp(req, "dockerRuntime", "runsc") EXCEPT !.hardening = "runsc"]
  ELSE req

\* a mutant of wrapperType: the Windows strategies are kept under
\* windows_cross
wrapperTypeCrossKeepsWin(req, relocatableErr) ==
  CASE req.filepath = "posixpath" ->
         IF req.needChroot THEN "wrapperNsjailChroot"
         ELSE IF relocatableErr # "nil" THEN "wrapperInputRootAbsolutePath"
         ELSE "wrapperRelocatable"
    [] req.filepath = "winpath" ->
         IF relocatableErr # "nil" THEN "wrapperWinInputRootAbsolutePath"
         ELSE "wrapperWin"
    [] OTHER -> "bad path type"

\* the strategy newWrapperScript selects
wrapperType(req, relocatableErr) ==
  CASE req.filepath = "posixpath" ->
         IF req.needChroot THEN "wrapperNsjailChroot"
         ELSE IF relocatableErr # "nil" THEN "wrapperInputRootAbsolutePath"
         ELSE "wrapperRelocatable"
    [] req.filepath = "winpath" ->
         LET wt == IF relocatableErr # "nil" THEN "wrapperWinInputRootAbsolutePath"
                   ELSE "wrapperWin"
         IN IF req.cmdConfig.WindowsCross
            THEN CASE wt = "wrapperWinInputRootAbsolutePath" ->
                        "wrapperInputRootAbsolutePath"
                   [] wt = "wrapperWin" -> "wrapperRelocatable"
            ELSE wt
    [] OTHER -> "bad path type"

\* the separator of a path algebra
Separator(filepath) == IF filepath = "winpath" THEN "\\" ELSE "/"

\* the drives of the model's Windows paths
Drives == {"C:", "c:", "D:"}

\* winpath.ToPosix on a string given by its pieces: the drive is dropped
\* and the separators are flipped
ToPosixStr(str) ==
  LET rest == IF str # <<>> /\ Head(str) \in Drives THEN Tail(str) ELSE str
  IN [i \in 1..Len(rest) |-> IF rest[i] = "\\" THEN "/" ELSE rest[i]]

\* rootRel of a name that is relative to the working directory; wd is the
\* root-relative working directory, empty for the root itself
JoinRel(filepath, wd, name) ==
  IF wd = <<>> THEN name ELSE wd \o <<Separator(filepath)>> \o name

\* the root-relative working directories rootRel can return for the cwd
PosixWorkDirs == {<<>>, <<"out", "/", "Release">>}

WinWorkDirs == {<<>>, <<"out", "\\", "Release">>}

WorkDirs(filepath) == IF filepath = "winpath" THEN WinWorkDirs ELSE PosixWorkDirs

\* strings.Split(str, ";")
RECURSIVE Split(_)
Split(str) ==
  LET k == IndexOf(str, ";") IN
  IF k = 0 THEN <<str>>
  ELSE <<SubSeq(str, 1, k - 1)>> \o Split(SubSeq(str, k + 1, Len(str)))

\* a mutant of crossEnv: the LIB= entries are kept
RECURSIVE crossEnvKeepsLib(_)
crossEnvKeepsLib(envs) ==
  IF envs = <<>> THEN [args |-> <<>>, env |-> <<>>]
  ELSE
  LET e == Head(envs)
      rest == crossEnvKeepsLib(Tail(envs))
  IN CASE HasPrefix(e, <<"INCLUDE", "=">>) ->
            LET includes == Split(SubSeq(e, 3, Len(e)))
            IN [rest EXCEPT !.args =
                  [i \in 1..Len(includes) |-> <<"-imsvc">> \o ToPosixStr(includes[i])]
                  \o @]
       [] OTHER -> [rest EXCEPT !.env = <<e>> \o @]

\* the loop of buildArgs over the client's environment under
\* windows_cross: the arguments appended and the entries kept
RECURSIVE crossEnv(_)
crossEnv(envs) ==
  IF envs = <<>> THEN [args |-> <<>>, env |-> <<>>]
  ELSE
  LET e == Head(envs)
      rest == crossEnv(Tail(envs))
  IN CASE HasPrefix(e, <<"INCLUDE", "=">>) ->
            LET includes == Split(SubSeq(e, 3, Len(e)))
            IN [rest EXCEPT !.args =
                  [i \in 1..Len(includes) |-> <<"-imsvc">> \o ToPosixStr(includes[i])]
                  \o @]
       [] HasPrefix(e, <<"LIB", "=">>) -> rest
       [] OTHER -> [rest EXCEPT !.env = <<e>> \o @]

\* the test of addTargetIfNotExist: an argument is -target or starts with
\* --target=
hasTarget(args) ==
  \E i \in 1..Len(args) :
    args[i] = <<"-target">> \/ HasPrefix(args[i], <<"--target=">>)

\* a mutant of addTargetIfNotExist: the arguments are not looked at
addTargetAlways(args, target) == Append(args, <<"--target=">> \o target)

\* addTargetIfNotExist
addTargetIfNotExist(args, target) ==
  IF hasTarget(args) THEN args ELSE Append(args, <<"--target=">> \o target)

\* the flags of buildArgs that are followed by a path, joined to it or
\* as the next argument
JoinedOrSeparate == {"/winsysroot", "-winsysroot", "-imsvc", "/imsvc", "-I", "/I"}

\* the flags of buildArgs that a path is joined to
Joined == {"-resource-dir=", "/Fo", "-Fo", "/Fd", "-Fd"}

\* the first pieces of the model's arguments that begin with "-" or "/"
FlagPieces ==
  JoinedOrSeparate \cup Joined
  \cup {"-c", "-D", "-target", "--target=", "--target", "-target=", "/"}

\* winpath.IsAbs on a string given by its pieces: a drive and a separator
winIsAbs(str) ==
  Len(str) >= 2 /\ str[1] \in Drives /\ str[2] \in {"\\", "/"}

\* what the loop of buildArgs under windows_cross makes of one argument
\* that does not follow a flag of its own
crossArg(arg) ==
  IF arg # <<>> /\ arg[1] \in JoinedOrSeparate \cup Joined
  THEN <<arg[1]>> \o ToPosixStr(Tail(arg))
  ELSE IF arg # <<>> /\ arg[1] \in FlagPieces THEN arg
  ELSE IF winIsAbs(arg) THEN ToPosixStr(arg)
  ELSE arg

\* the loop of buildArgs over the arguments after the first under
\* windows_cross; pathFlag tells that the argument before was a flag that
\* takes the next argument as its path
RECURSIVE crossArgs(_, _)
crossArgs(args, pathFlag) ==
  IF args = <<>> THEN <<>>
  ELSE
  LET arg == Head(args) IN
  IF pathFlag THEN <<ToPosixStr(arg)>> \o crossArgs(Tail(args), FALSE)
  ELSE IF Len(arg) = 1 /\ arg[1] \in JoinedOrSeparate
  THEN <<arg>> \o crossArgs(Tail(args), TRUE)
  ELSE <<crossArg(arg)>> \o crossArgs(Tail(args), FALSE)

\* buildArgs: the arguments, and req.Env as it leaves it
buildArgs(cmdConfig, arg0, req) ==
  LET args == <<<<arg0>>>> \o Tail(req.Arg)
      built == IF cmdConfig.WindowsCross
               THEN LET ce == crossEnv(req.Env)
                    IN [args |-> <<<<ToPosix(arg0)>>>> \o crossArgs(Tail(args), FALSE)
                                 \o ce.args,
                        env |-> ce.env]
               ELSE [args |-> args, env |-> req.Env]
  IN IF cmdConfig.ClangNeedTarget
     THEN [built EXCEPT !.args = addTargetIfNotExist(@, req.Target)]
     ELSE built

\* a mutant of forwardedEnv: the relocatable strategy forwards PWD as well
forwardedEnvKeepsPWD(wt, env) ==
  CASE wt \in {"wrapperInputRootAbsolutePath", "wrapperRelocatable"} -> env
    [] wt = "wrapperWinInputRootAbsolutePath" ->
         SelectSeq(env, LAMBDA e : HasPrefix(e, <<"INCLUDE", "=">>)
                                   \/ HasPrefix(e, <<"LIB", "=">>))
    [] OTHER -> <<>>

\* the entries of r.gomaReq.Env a strategy appends to the environment
forwardedEnv(wt, env) ==
  CASE wt = "wrapperInputRootAbsolutePath" -> env
    [] wt = "wrapperRelocatable" ->
         SelectSeq(env, LAMBDA e : ~HasPrefix(e, <<"PWD", "=">>))
    [] wt = "wrapperWinInputRootAbsolutePath" ->
         SelectSeq(env, LAMBDA e : HasPrefix(e, <<"INCLUDE", "=">>)
                                   \/ HasPrefix(e, <<"LIB", "=">>))
    [] OTHER -> <<>>

\* the names of the wrapper files a strategy materializes, the entry
\* command first; wrapperForWindows names its wrapper run.exe
wrapperFiles(wt, hardening) ==
  CASE wt = "wrapperNsjailChroot" -> <<<<"run.sh">>, <<"nsjail.cfg">>>>
    [] wt \in {"wrapperInputRootAbsolutePath", "wrapperRelocatable"} ->
         IF hardening = "nsjail" THEN <<<<"run.sh">>, <<"nsjail.cfg">>>>
         ELSE <<<<"run.sh">>>>
    [] OTHER -> <<<<"run.exe">>>>

\* a mutant of entryPath: every path without a directory is prefixed
entryPathAnyName(wrapperPath, cross) ==
  LET p == IF Len(wrapperPath) = 1 THEN <<".", "/">> \o wrapperPath ELSE wrapperPath
  IN IF cross THEN ToPosixStr(p) ELSE p

\* the first argument of the command line, made of the root-relative path
\* of the first wrapper file
entryPath(wrapperPath, cross) ==
  LET p == IF wrapperPath = <<"run.sh">> THEN <<".", "/", "run.sh">> ELSE wrapperPath
  IN IF cross THEN ToPosixStr(p) ELSE p

\* what newWrapperScript hands back: the request and "nil", "badRequest"
\* (a badRequestError) or "error" (any other error)
WrapperResult(req, e) == [r |-> req, err |-> e]

\* the end of newWrapperScript: the wrapper files are set in the tree
\* under their root-relative names, and the environment and the command
\* line are stored in the request
setWrapper(req, wd, envs, args) ==
  LET names == wrapperFiles(req.wrapper, req.hardening)
      rels == [i \in 1..Len(names) |-> JoinRel(req.filepath, wd, names[i])]
  IN [req EXCEPT
        !.files = @ \o [i \in 1..Len(rels) |-> [Name |-> rels[i], of |-> "wrapper"]],
        !.envs = envs,
        !.args = <<entryPath(rels[1], req.cmdConfig.WindowsCross)>> \o args]

\* newWrapperScript; s gives the collaborators' answers
newWrapperScript(req, greq, cfg, s) ==
  IF s.fail = "cwd" THEN WrapperResult(req, "badRequest")
  ELSE
  LET cross == req.cmdConfig.WindowsCross
      wd1 == IF s.wd = <<>> THEN <<".">> ELSE s.wd
      wd == IF cross THEN ToPosixStr(wd1) ELSE wd1
      \* the strategy wt is chosen and the arguments are built
      Wrapped(built, relocatableErr, wt) ==
        LET r0 == [req EXCEPT !.wrapper = wt, !.wd = wd, !.reqEnv = built.env]
            Finish(rq) ==
              IF s.fail = "wrapperRootRel" THEN WrapperResult(rq, "error")
              ELSE WrapperResult(
                     setWrapper(rq, s.wd,
                                <<<<"WORK_DIR", "=">> \o wd>> \o forwardedEnv(wt, built.env),
                                built.args),
                     "nil")
        IN
        CASE wt = "wrapperNsjailChroot" ->
               Finish(AddProp(AddProp(r0, "dockerPrivileged", "true"),
                              "dockerRunAsRoot", "true"))
          [] wt = "wrapperInputRootAbsolutePath" ->
               LET rootDir == IF cross THEN ToPosix(req.rootDir) ELSE req.rootDir
               IN Finish(AddProp(maybeApplyHardening(r0, cfg, s.d1, s.d2),
                                 "InputRootAbsolutePath", rootDir))
          [] wt = "wrapperRelocatable" ->
               Finish(maybeApplyHardening(r0, cfg, s.d1, s.d2))
          [] wt = "wrapperWin" ->
               IF s.fail = "wrapperForWindows" THEN WrapperResult(r0, "error")
               ELSE Finish(r0)
          [] wt = "wrapperWinInputRootAbsolutePath" ->
               IF relocatableErr # "nil" /\ ~HasPrefixUpperC(req.rootDir)
               THEN WrapperResult(r0, "badRequest")
               ELSE LET r1 == AddProp(r0, "InputRootAbsolutePath", req.rootDir) IN
                    IF s.fail = "wrapperForWindows" THEN WrapperResult(r1, "error")
                    ELSE Finish(r1)
          [] OTHER -> WrapperResult(req, "error")
      Typed(built, relocatableErr) ==
        Wrapped(built, relocatableErr, wrapperType(req, relocatableErr))
  IN Typed(buildArgs(req.cmdConfig, req.cmdFiles[1].Path, greq),
           IF req.filepath = "posixpath" /\ req.needChroot THEN "nil"
           ELSE relocatableReq(req.cmdConfig, greq.Relocatable))

-----------------------------------------------------------------------------
(* newInputTree.                                                           *)

\* the points at which newInputTree can fail apart from its inputs, "none"
\* when it does not
InputTreeFailures ==
  {"none", "inputPaths", "inputRootDir", "cwd", "wrapperForWindows",
   "wrapperRootRel", "fileSpecToEntry", "cmdFileRootRel", "addDirs", "treeSet",
   "treeBuild"}

\* what happens to one input in inputFiles: rootRel finds it outside the
\* root or fails, or the file service has its digest ("ok") or fails to
\* give it
InputAnswers == {"ok", "errOutOfRoot", "rootRel error", "not found", "unavailable"}

\* fmt.Sprintf("input: %v", err) for the failures of toDigest
ReasonOf(answer) ==
  CASE answer = "not found" -> "input: not found"
    [] OTHER -> "input: unavailable"

\* an inputFileResult; file is the name of the entry, empty for none
FileResult(missingInput, missingReason, file, needUpload, e) ==
  [missingInput |-> missingInput, missingReason |-> missingReason,
   file |-> file, needUpload |-> needUpload, err |-> e]

\* fmt.Errorf("input file: %s %v", input.GetFilename(), err)
InputErr(filename) == [code |-> "Unknown", msg |-> "input file", file |-> filename]

\* a mutant of inputFiles: an input outside the root is reported missing
inputFilesOutOfRootMissing(inputs, answers, filepath, wd) ==
  [i \in 1..Len(inputs) |->
     LET input == inputs[i] IN
     CASE answers[i] = "errOutOfRoot" ->
            FileResult(input.Filename, "input: out of root", <<>>, FALSE, Nil)
       [] answers[i] = "rootRel error" ->
            FileResult("", "", <<>>, FALSE, InputErr(input.Filename))
       [] answers[i] = "ok" ->
            FileResult("", "", JoinRel(filepath, wd, <<input.Filename>>),
                       input.Embedded, Nil)
       [] OTHER ->
            FileResult(input.Filename, ReasonOf(answers[i]), <<>>, FALSE, Nil)]

\* inputFiles: the result of every input; answers are the answers of
\* rootRel and of the file service for it, wd the root-relative working
\* directory the relative filenames are joined to
inputFiles(inputs, answers, filepath, wd) ==
  [i \in 1..Len(inputs) |->
     LET input == inputs[i] IN
     CASE answers[i] = "errOutOfRoot" -> FileResult("", "", <<>>, FALSE, Nil)
       [] answers[i] = "rootRel error" ->
            FileResult("", "", <<>>, FALSE, InputErr(input.Filename))
       [] answers[i] = "ok" ->
            FileResult("", "", JoinRel(filepath, wd, <<input.Filename>>),
                       input.Embedded, Nil)
       [] OTHER ->
            FileResult(input.Filename, ReasonOf(answers[i]), <<>>, FALSE, Nil)]

\* the indices at which a list of flags holds TRUE, in increasing order
Indices(flags) ==
  SelectSeq([i \in 1..Len(flags) |-> i], LAMBDA i : flags[i])

\* the inputs whose task calls the file service: those whose
\* root-relative name was found
Asked(inputs, answers) ==
  Indices([i \in 1..Len(inputs) |->
             answers[i] \notin {"errOutOfRoot", "rootRel error"}])

\* the calls of inputFiles to the file service: one for every input whose
\* root-relative name was found.  The tasks of the inputs run side by
\* side: order[k] tells which of these inputs' tasks calls k-th
DigestCalls(inputs, answers, order) ==
  LET asked == Asked(inputs, answers)
  IN [k \in 1..Len(asked) |->
        Call("FileService.toDigest", inputs[asked[order[k]]].Filename)]

\* the inputs newInputTree hands to uploadInputFiles
Uploads(inputs, results) ==
  LET up == Indices([i \in 1..Len(inputs) |-> results[i].needUpload])
  IN [k \in 1..Len(up) |-> inputs[up[k]]]

\* a mutant of MissingOf: no input is collected as missing
MissingOfNone(results) == <<>>

\* the missing inputs and their reasons that newInputTree collects
MissingOf(results) ==
  LET miss == Indices([i \in 1..Len(results) |-> results[i].missingInput # ""])
  IN [k \in 1..Len(miss) |->
        <<results[miss[k]].missingInput, results[miss[k]].missingReason>>]

\* the entries of the inputs that newInputTree collects
FilesOf(results) ==
  LET have == Indices([i \in 1..Len(results) |->
                         results[i].missingInput = "" /\ results[i].file # <<>>])
  IN [k \in 1..Len(have) |-> [Name |-> results[have[k]].file, of |-> "input"]]

\* the answers of the file service to the upload of embedded contents:
\* the hash keys it assigned, or an error
UploadInputAnswer(kind, e, hks) == [kind |-> kind, err |-> e, hks |-> hks]

\* what the file service answers to the upload of the embedded inputs:
\* the inputs' hash keys, an error, a list that is one key short, or a
\* list whose first key is another one
UploadKinds == {"ok", "error", "short", "other key"}

UploadAnswerOf(kind, inputs) ==
  LET keys == [i \in 1..Len(inputs) |-> inputs[i].HashKey] IN
  CASE kind = "error" ->
         UploadInputAnswer(kind, StatusErr("Unavailable", "upload"), <<>>)
    [] kind = "canceled" ->
         UploadInputAnswer(kind, StatusErr("Canceled", "context canceled"), <<>>)
    [] kind = "short" -> UploadInputAnswer(kind, Nil, SubSeq(keys, 1, Len(keys) - 1))
    [] kind = "other key" ->
         UploadInputAnswer(kind, Nil,
                           [i \in 1..Len(keys) |-> IF i = 1 THEN "k0" ELSE keys[i]])
    [] OTHER -> UploadInputAnswer(kind, Nil, keys)

batchLimit == 500
\* 10 * 1024 * 1024
sizeLimit == 10485760

\* a mutant of batchOpen: a batch is left open while it has batchLimit blobs
batchOpenPastLimit(count, size, i, n) ==
  count <= batchLimit /\ size < sizeLimit /\ i < n - 1

\* the test of the loop that leaves the batch open: i is the index of the
\* blob, n the length of the list
batchOpen(count, size, i, n) ==
  count < batchLimit /\ size < sizeLimit /\ i < n - 1

\* a mutant of nextOffset: the next batch begins at the last blob of this
nextOffsetSame(i) == i

\* beginOffset after the batch that ends with blob i was started
nextOffset(i) == i + 1

\* a mutant of firstError: the errgroup keeps the error of the last task
\* that failed
lastError(old, e) == IF e # Nil THEN e ELSE old

\* errgroup: errOnce keeps the error of the first task that returns one
firstError(old, e) == IF old = Nil THEN e ELSE old

\* the loop of uploadInputFiles from blob i on, with count blobs of size
\* bytes in the batch that begins at begin: the batches it starts
RECURSIVE batchesFrom(_, _, _, _, _)
batchesFrom(inputs, i, count, size, begin) ==
  IF i >= Len(inputs) THEN <<>>
  ELSE
  LET c == count + 1
      sz == size + inputs[i + 1].size
  IN IF batchOpen(c, sz, i, Len(inputs))
     THEN batchesFrom(inputs, i + 1, c, sz, begin)
     ELSE <<[begin |-> begin, end |-> i + 1]>>
          \o batchesFrom(inputs, i + 1, 0, 0, nextOffset(i))

\* the batches inputs[begin:end] that uploadInputFiles cuts the inputs into
Batches(inputs) == batchesFrom(inputs, 0, 0, 0, 0)

\* a mutant of batchError: the hash keys are not compared
batchErrorNoKeyCheck(inputs, answer) ==
  IF answer.err # Nil THEN StatusErr("Unknown", "setup input error")
  ELSE Nil

\* the error the task of a batch returns for the answer of gi.upload
batchError(inputs, answer) ==
  IF answer.err # Nil THEN StatusErr("Unknown", "setup input error")
  ELSE IF Len(answer.hks) # Len(inputs)
  THEN StatusErr("Unknown", "invalid number of hash keys")
  ELSE IF \E i \in 1..Len(inputs) : inputs[i].HashKey # answer.hks[i]
  THEN StatusErr("Unknown", "hashkey missmatch")
  ELSE Nil

\* what the tasks of n batches meet: kinds[k] is what gi.upload answers to
\* batch k, called the order in which the tasks call it and returned the
\* order in which they return to the errgroup
UploadAnswer(kinds, called, returned) ==
  [kinds |-> kinds, called |-> called, returned |-> returned]

\* a mutant of uploadInputFiles: the hash keys are not compared
uploadInputFilesNoKeyCheck(inputs, answer) ==
  LET bs == Batches(inputs)
      errs == [k \in 1..Len(bs) |->
                 LET slice == SubSeq(inputs, bs[k].begin + 1, bs[k].end)
                 IN batchErrorNoKeyCheck(slice, UploadAnswerOf(answer.kinds[k], slice))]
      failed == SelectSeq(answer.returned, LAMBDA k : errs[k] # Nil)
  IN [err |-> IF failed = <<>> THEN Nil ELSE firstError(Nil, errs[failed[1]]),
      calls |-> [j \in 1..Len(bs) |->
                   Call("FileService.upload", answer.kinds[answer.called[j]])]]

\* uploadInputFiles: the error it returns and the calls it issues.  Every
\* batch has a task, the tasks run side by side and eg.Wait returns the
\* error of the first task that returned one
uploadInputFiles(inputs, answer) ==
  LET bs == Batches(inputs)
      errs == [k \in 1..Len(bs) |->
                 LET slice == SubSeq(inputs, bs[k].begin + 1, bs[k].end)
                 IN batchError(slice, UploadAnswerOf(answer.kinds[k], slice))]
      failed == SelectSeq(answer.returned, LAMBDA k : errs[k] # Nil)
  IN [err |-> IF failed = <<>> THEN Nil ELSE firstError(Nil, errs[failed[1]]),
      calls |-> [j \in 1..Len(bs) |->
                   Call("FileService.upload", answer.kinds[answer.called[j]])]]

\* the bytes of the filenames and of the working directory that
\* dedupInputs is run with
FileBytes ==
  "a.c"        :> <<97, 46, 99>> @@
  "A.C"        :> <<65, 46, 67>> @@
  "A.c"        :> <<65, 46, 99>> @@
  "b.h"        :> <<98, 46, 104>> @@
  "c.h"        :> <<99, 46, 104>> @@
  "d.h"        :> <<100, 46, 104>> @@
  "C:\\w\\a.c" :> <<67, 58, 92, 119, 92, 97, 46, 99>> @@
  "c:\\W\\b.h" :> <<99, 58, 92, 87, 92, 98, 46, 104>> @@
  "C:\\w"      :> <<67, 58, 92, 119>>

\* the working directory of every request of the model
Cwd == "C:\\w"

\* strings.ToLower on the bytes of an ASCII string
ToLower(bytes) ==
  [i \in 1..Len(bytes) |-> IF bytes[i] \in 65..90 THEN bytes[i] + 32 ELSE bytes[i]]

\* filepath.IsAbs: under winpath a drive letter, a colon and a separator,
\* under posixpath a leading slash
IsAbs(filepath, fname) ==
  IF filepath = "winpath"
  THEN Len(fname) >= 3 /\ fname[2] = 58 /\ fname[3] \in {47, 92}
  ELSE Len(fname) >= 1 /\ fname[1] = 47

\* filepath.Join of a clean directory and a clean relative name
Join(filepath, dir, fname) ==
  dir \o <<IF filepath = "winpath" THEN 92 ELSE 47>> \o fname

\* the key dedupInputs files an input under: its lower-cased filename,
\* joined to the working directory when it is relative
dedupKey(filepath, cwd, input) ==
  LET fname == FileBytes[input.Filename] IN
  ToLower(IF IsAbs(filepath, fname) THEN fname ELSE Join(filepath, FileBytes[cwd], fname))

\* a mutant of takesPlace: the longer filename is taken
takesPlaceLonger(input, kept) ==
  LET new == FileBytes[input.Filename]
      old == FileBytes[kept.Filename]
  IN Len(new) > Len(old)

\* an input takes the place of the one kept under its key: its filename
\* is shorter, or as long and smaller
takesPlace(input, kept) ==
  LET new == FileBytes[input.Filename]
      old == FileBytes[kept.Filename]
  IN \/ Len(new) < Len(old)
     \/ Len(new) = Len(old) /\ BytesLess(new, old)

\* the loop of dedupInputs from input i on: deduped is the list so far
\* and keys[j] the key that m maps to j
RECURSIVE dedupFrom(_, _, _, _, _, _)
dedupFrom(filepath, cwd, inputs, i, deduped, keys) ==
  IF i > Len(inputs) THEN deduped
  ELSE
  LET input == inputs[i]
      k == dedupKey(filepath, cwd, input)
      found == {j \in 1..Len(keys) : keys[j] = k}
  IN IF found = {}
     THEN dedupFrom(filepath, cwd, inputs, i + 1, Append(deduped, input), Append(keys, k))
     ELSE LET j == CHOOSE x \in found : TRUE IN
          IF takesPlace(input, deduped[j])
          THEN dedupFrom(filepath, cwd, inputs, i + 1,
                         [deduped EXCEPT ![j] = input], keys)
          ELSE dedupFrom(filepath, cwd, inputs, i + 1, deduped, keys)

\* a mutant of dedupInputs: the list is left as it is
dedupInputsNone(filepath, cwd, inputs) == inputs

dedupInputs(filepath, cwd, inputs) ==
  dedupFrom(filepath, cwd, inputs, 1, <<>>, <<>>)

\* a mutant of reqInputs: the inputs are deduplicated under windows_cross too
reqInputsCrossToo(req, greq) ==
  IF req.filepath = "winpath"
  THEN dedupInputs(req.filepath, Cwd, greq.Input)
  ELSE greq.Input

\* the inputs newInputTree hands to inputFiles: deduplicated under winpath,
\* unless the compiler is a Windows cross compiler
reqInputs(req, greq) ==
  IF req.filepath = "winpath" /\ ~req.cmdConfig.WindowsCross
  THEN dedupInputs(req.filepath, Cwd, greq.Input)
  ELSE greq.Input

\* a mutant of firstInputError: the error of the last input that has one
lastInputError(results) ==
  LET failed == {k \in 1..Len(results) : results[k].err # Nil}
  IN IF failed = {} THEN Nil
     ELSE results[CHOOSE k \in failed : \A j \in failed : j <= k].err

\* the error newInputTree records from the results: that of the first
\* result, in the order of the inputs, that has one
firstInputError(results) ==
  LET failed == {k \in 1..Len(results) : results[k].err # Nil}
  IN IF failed = {} THEN Nil
     ELSE results[CHOOSE k \in failed : \A j \in failed : k <= j].err

\* newInputTree does not get to the call of inputFiles: the request has
\* an error, or its input paths or its root are bad; s gives the
\* collaborators' answers
inputTreeRefused(req, s) ==
  req.err # Nil \/ s.fail \in {"inputPaths", "inputRootDir"}

\* what newInputTree returns then
inputTreeRefusal(req, s) ==
  IF req.err # Nil THEN StageResult(req, FALSE, Nil, <<>>)
  ELSE IF s.fail = "inputPaths"
  THEN StageResult([req EXCEPT !.gomaResp = BadRequest(@, <<"bad input", "", "">>)],
                   TRUE, Nil, <<>>)
  ELSE StageResult(
         [req EXCEPT !.gomaResp =
            BadRequest(@, <<"input root detection failed", "", "">>)],
         TRUE, Nil, <<>>)

\* the request as inputFiles finds it
inputTreeRooted(req, greq, s) ==
  [req EXCEPT !.rootDir = s.rootDir, !.needChroot = s.needChroot,
              !.reqInputs = reqInputs(req, greq),
              !.answers = s.inputs]

\* the paths of the command files, of their symlinks and of the roots, by
\* their pieces
PathPieces ==
  "/bin/clang" :> <<"/", "bin", "/", "clang">>
  @@ "C:\\bin\\clang-cl.bat" :> <<"C:", "\\", "bin", "\\", "clang-cl.bat">>
  @@ "C:\\bin\\clang-cl" :> <<"C:", "\\", "bin", "\\", "clang-cl">>
  @@ "/work/bin/cc" :> <<"/", "work", "/", "bin", "/", "cc">>
  @@ "/work/bin/gcc" :> <<"/", "work", "/", "bin", "/", "gcc">>
  @@ "/work/bin/ld" :> <<"/", "work", "/", "bin", "/", "ld">>
  @@ "/usr/bin/ld" :> <<"/", "usr", "/", "bin", "/", "ld">>
  @@ "bin/cxx" :> <<"bin", "/", "cxx">>
  @@ "/work/bin/as" :> <<"/", "work", "/", "bin", "/", "as">>
  @@ "gas" :> <<"gas">>
  @@ "/usr/bin/ar" :> <<"/", "usr", "/", "bin", "/", "ar">>
  @@ "/usr/bin/gar" :> <<"/", "usr", "/", "bin", "/", "gar">>
  @@ "/work/bin/real" :> <<"/", "work", "/", "bin", "/", "real">>
  @@ "/bin/cc" :> <<"/", "bin", "/", "cc">>
  @@ "/lib/libc" :> <<"/", "lib", "/", "libc">>
  @@ "run.sh" :> <<"run.sh">>
  @@ "" :> <<>>
  @@ "/work" :> <<"/", "work">>
  @@ "C:\\src" :> <<"C:", "\\", "src">>
  @@ "c:\\src" :> <<"c:", "\\", "src">>
  @@ "D:\\src" :> <<"D:", "\\", "src">>

\* the names between the separators of a path of the server's filepath
Components(path) == SelectSeq(path, LAMBDA x : x # "/")

\* the components joined by the separator
JoinSlash(comps) ==
  [i \in 1..(2 * Len(comps) - 1) |-> IF i % 2 = 1 THEN comps[(i + 1) \div 2] ELSE "/"]

\* filepath.IsAbs of the server
filepathIsAbs(path) == Len(path) > 0 /\ path[1] = "/"

\* filepath.Dir of the server
filepathDir(path) ==
  LET slashes == {i \in 1..Len(path) : path[i] = "/"} IN
  IF slashes = {} THEN <<".">>
  ELSE LET k == CHOOSE i \in slashes : \A j \in slashes : j <= i
       IN IF k = 1 THEN <<"/">> ELSE SubSeq(path, 1, k - 1)

\* filepath.Rel of the server for two absolute paths
filepathRel(base, targ) ==
  LET b == Components(base)
      t == Components(targ)
      same == {n \in 0..Len(b) : n <= Len(t) /\ SubSeq(b, 1, n) = SubSeq(t, 1, n)}
      c == CHOOSE n \in same : \A m \in same : m <= n
      comps == [i \in 1..(Len(b) - c) |-> ".."] \o SubSeq(t, c + 1, Len(t))
  IN IF comps = <<>> THEN <<".">> ELSE JoinSlash(comps)

\* fmt.Errorf of changeSymlinkAbsToRel
SymlinkErr == StatusErr("Unknown", "changeSymlinkAbsToRel")

\* a mutant of changeSymlinkAbsToRel: a link whose directory is not
\* absolute is handed back as it is
changeSymlinkKeepsAbs(e) ==
  LET dir == filepathDir(e.Name) IN
  IF ~filepathIsAbs(dir) THEN [e |-> e, err |-> Nil]
  ELSE [e |-> [e EXCEPT !.Target = filepathRel(dir, e.Target)], err |-> Nil]

\* changeSymlinkAbsToRel
changeSymlinkAbsToRel(e) ==
  LET dir == filepathDir(e.Name) IN
  IF ~filepathIsAbs(dir) THEN [e |-> e, err |-> SymlinkErr]
  ELSE [e |-> [e EXCEPT !.Target = filepathRel(dir, e.Target)], err |-> Nil]

\* fileSpecToEntry: the entry of a command file
fileSpecToEntry(spec) ==
  [Name |-> PathPieces[spec.Path], of |-> "cmd", Target |-> PathPieces[spec.Symlink]]

\* rootRel of a name of a command file or of a directory: the name under
\* the root, <<>> for a name outside the root
OutOfRoot == <<>>

nameRootRel(filepath, name, wd, rootDir) ==
  LET root == PathPieces[rootDir]
      abs == IF filepath = "winpath" THEN name[1] \in Drives ELSE name[1] = "/"
  IN IF abs
     THEN IF HasPrefix(name, root \o <<Separator(filepath)>>)
          THEN SubSeq(name, Len(root) + 2, Len(name))
          ELSE OutOfRoot
     ELSE IF name = <<".">> THEN (IF wd = <<>> THEN name ELSE wd)
     ELSE JoinRel(filepath, wd, name)

\* toolchainInputs: the paths of the toolchain specs that are no symlink,
\* of a request with its toolchain included
toolchainInputs(greq) ==
  IF greq.ToolchainIncluded
  THEN {greq.ToolchainSpecs[i].Path :
          i \in {j \in 1..Len(greq.ToolchainSpecs) : greq.ToolchainSpecs[j].SymlinkPath = ""}}
  ELSE {}

\* what the loop of newInputTree does with one command file: it is
\* skipped, it fails or it gives an entry
cmdFileEntry(req, greq, cfg, wd, spec) ==
  IF spec.Path \in toolchainInputs(greq) THEN [kind |-> "skip"]
  ELSE
  LET e == fileSpecToEntry(spec)
      symAbsOk == cfg.SymlinkAbsolutePathStrategy = "ALLOWED"
      c == IF ~symAbsOk /\ e.Target # <<>> /\ filepathIsAbs(e.Target)
           THEN changeSymlinkAbsToRel(e) ELSE [e |-> e, err |-> Nil]
  IN IF c.err # Nil THEN [kind |-> "error", err |-> c.err]
     ELSE LET fname == nameRootRel(req.filepath, c.e.Name, wd, req.rootDir)
          IN IF fname = OutOfRoot THEN [kind |-> "skip"]
             ELSE [kind |-> "entry", e |-> [c.e EXCEPT !.Name = fname]]

\* the loop of newInputTree over r.cmdFiles: the entries it appends, or
\* the error of the first command file that fails
cmdFileEntries(req, greq, cfg, wd) ==
  LET done == [i \in 1..Len(req.cmdFiles) |->
                 cmdFileEntry(req, greq, cfg, wd, req.cmdFiles[i])] \o <<>>
      failed == Indices([i \in 1..Len(done) |-> done[i].kind = "error"])
      kept == Indices([i \in 1..Len(done) |-> done[i].kind = "entry"])
  IN IF failed # <<>> THEN [err |-> done[failed[1]].err, files |-> <<>>]
     ELSE [err |-> Nil, files |-> [k \in 1..Len(kept) |-> done[kept[k]].e]]

\* the arguments that follow an argument that is the flag
argsAfter(args, flag) ==
  LET at == Indices([i \in 1..Len(args) |-> i > 1 /\ args[i - 1] = <<flag>>])
  IN [k \in 1..Len(at) |-> args[at[k]]]

\* gccOutputs: the output files a gcc or clang command line names, after
\* -o and after -MF
gccOutputs(args) == argsAfter(args, "-o") \o argsAfter(args, "-MF")

\* clangclOutputs: the output files a clang-cl command line names, joined
\* to /Fo or -Fo
clangclOutputs(args) ==
  LET at == Indices([i \in 1..Len(args) |->
                       Len(args[i]) > 1 /\ args[i][1] \in {"/Fo", "-Fo"}])
  IN [k \in 1..Len(at) |-> Tail(args[at[k]])]

\* javacOutputDirs: the directory a javac command line names after -d
javacOutputDirs(args) == argsAfter(args, "-d")

\* outputs: the expected output files when the client names output files
\* or directories, those of the command line otherwise
outputs(cmdConfig, greq) ==
  IF Len(greq.ExpectedOutputFiles) > 0 \/ Len(greq.ExpectedOutputDirs) > 0
  THEN greq.ExpectedOutputFiles
  ELSE CASE cmdConfig.Selector \in {"gcc", "g++", "clang", "clang++"} ->
              gccOutputs(greq.Arg)
         [] cmdConfig.Selector = "clang-cl" -> clangclOutputs(greq.Arg)
         [] OTHER -> <<>>

\* outputDirs: the expected output directories when the client names
\* output files or directories, those of the command line otherwise
outputDirs(cmdConfig, greq) ==
  IF Len(greq.ExpectedOutputFiles) > 0 \/ Len(greq.ExpectedOutputDirs) > 0
  THEN greq.ExpectedOutputDirs
  ELSE IF cmdConfig.Selector = "javac" THEN javacOutputDirs(greq.Arg)
  ELSE <<>>

\* Dir of the client's path algebra: what precedes the last separator
clientDir(filepath, path) ==
  LET seps == {i \in 1..Len(path) : path[i] = Separator(filepath)} IN
  IF seps = {} THEN <<".">>
  ELSE LET k == CHOOSE i \in seps : \A j \in seps : j <= i
       IN IF k = 1 \/ (k = 2 /\ path[1] \in Drives) THEN SubSeq(path, 1, k)
          ELSE SubSeq(path, 1, k - 1)

\* addDirs: one directory for every path of dirs under the root
addDirs(req, dirs, wd) ==
  LET rels == [i \in 1..Len(dirs) |->
                 nameRootRel(req.filepath, dirs[i], wd, req.rootDir)]
      kept == SelectSeq(rels, LAMBDA rel : rel # OutOfRoot)
  IN [i \in 1..Len(kept) |-> [Name |-> kept[i], of |-> "dir"]]

\* the directories newInputTree adds: the system include and framework
\* paths of the request, the directories of the output files and the
\* output directories
dirEntries(req, greq, wd) ==
  LET outs == outputs(req.cmdConfig, greq) IN
  addDirs(req, greq.CxxSystemIncludePath, wd)
  \o addDirs(req, greq.SystemIncludePath, wd)
  \o addDirs(req, greq.SystemFrameworkPath, wd)
  \o addDirs(req, [i \in 1..Len(outs) |-> clientDir(req.filepath, outs[i])], wd)
  \o addDirs(req, outputDirs(req.cmdConfig, greq), wd)

\* the digests tree.Build writes into the digest store: those of the
\* directory nodes, of which the model keeps the root
treeNodes == <<"root">>

\* newInputTree from the return of inputFiles up to the call of
\* uploadInputFiles, or to its end when it does not get there: r1 is the
\* request, results are the results of the inputs and digests the calls to
\* the file service that gave them
inputTreeBuilt(r1, greq, cfg, s, results, digests) ==
  LET missing == MissingOf(results)
      files == FilesOf(results)
      \* tree.Build, r2 holding the entries set
      Built(r2) ==
        IF s.fail = "treeBuild"
        THEN StageResult([r2 EXCEPT !.err = StatusErr("Unknown", s.fail)],
                         FALSE, Nil, digests)
        ELSE StageResult([r2 EXCEPT !.inputRootDigest = "root",
                                    !.digestStore = @ \o treeNodes],
                         FALSE, Nil, digests)
      \* the loop over the command files has given cmd
      WithCmdFiles(wr, cmd) ==
        IF cmd.err # Nil
        THEN StageResult([wr EXCEPT !.err = cmd.err], FALSE, Nil, digests)
        ELSE
        LET outs == [wr EXCEPT !.cwd = s.wd,
                               !.outputs = outputs(wr.cmdConfig, greq),
                               !.outputDirs = outputDirs(wr.cmdConfig, greq)]
        IN
        IF s.fail \in {"addDirs", "treeSet"}
        THEN StageResult([outs EXCEPT !.err = StatusErr("Unknown", s.fail)],
                         FALSE, Nil, digests)
        ELSE Built([outs EXCEPT !.files = @ \o files \o cmd.files
                                            \o dirEntries(wr, greq, s.wd)])
      \* newWrapperScript has returned w
      WithWrapper(w) ==
        IF w.err = "badRequest"
        THEN StageResult([w.r EXCEPT !.gomaResp = BadRequest(@, <<"bad request", "", "">>)],
                         TRUE, Nil, digests)
        ELSE IF w.err # "nil"
        THEN StageResult([w.r EXCEPT !.err = StatusErr("Unknown", "wrapper script")],
                         FALSE, Nil, digests)
        ELSE IF s.fail \in {"fileSpecToEntry", "cmdFileRootRel"}
        THEN StageResult([w.r EXCEPT !.err = StatusErr("Unknown", s.fail)],
                         FALSE, Nil, digests)
        ELSE WithCmdFiles(w.r, cmdFileEntries(w.r, greq, cfg, s.wd))
      \* the results of the inputs have no error
      WithInputs(failure) ==
        IF failure # Nil
        THEN StageResult([r1 EXCEPT !.err = failure], FALSE, Nil, digests)
        ELSE IF Len(missing) > 0
        THEN LET resp1 == [r1.gomaResp EXCEPT
                             !.MissingInput = [i \in 1..Len(missing) |-> missing[i][1]],
                             !.MissingReason = [i \in 1..Len(missing) |-> missing[i][2]]]
                 resp2 == sortMissing(greq.Input,
                                      thinOutMissing(resp1, missingInputLimit, s.shuffled),
                                      s.sorted)
             IN StageResult([r1 EXCEPT !.gomaResp = resp2, !.missing = missing],
                            TRUE, Nil, digests)
        ELSE WithWrapper(newWrapperScript(r1, greq, cfg, s))
  IN WithInputs(firstInputError(results))

\* newInputTree has built the tree and calls uploadInputFiles next
treeBuilt(res) ==
  /\ res.err = Nil /\ ~res.resp
  /\ res.r.err = Nil /\ res.r.inputRootDigest = "root"

\* the end of newInputTree: uploadInputFiles has returned up for the
\* uploads, and newInputTree logs its error and returns
inputTreeUploaded(res, uploads, up) ==
  StageResult([res.r EXCEPT !.uploaded = [i \in 1..Len(uploads) |-> uploads[i].Filename],
                            !.uploadErr = up.err],
              FALSE, Nil, res.calls \o up.calls)

\* newInputTree from the return of inputFiles on
inputTreeOf(r1, greq, cfg, s, results, digests) ==
  LET Uploaded(res, uploads) ==
        IF treeBuilt(res)
        THEN inputTreeUploaded(res, uploads, uploadInputFiles(uploads, s.upload))
        ELSE res
  IN Uploaded(inputTreeBuilt(r1, greq, cfg, s, results, digests),
              Uploads(r1.reqInputs, results))

\* newInputTree; s gives the collaborators' answers: the point of failure,
\* the root and needChroot of inputRootDir, the root-relative working
\* directory, the answers for the inputs, the shuffle of thinOutMissing,
\* the draws of the hardening and the answer to the upload
newInputTree(req, greq, cfg, s) ==
  IF inputTreeRefused(req, s) THEN inputTreeRefusal(req, s)
  ELSE inputTreeOf(inputTreeRooted(req, greq, s), greq, cfg, s,
                   inputFiles(reqInputs(req, greq), s.inputs, req.filepath, s.wd),
                   DigestCalls(reqInputs(req, greq), s.inputs, s.digestOrder))

-----------------------------------------------------------------------------
(* setupNewAction.                                                         *)

SetupFailures == {"none", "digestCommand", "digestAction"}

\* the points at which setupNewAction can fail for a request with outputs
OutputFailures == {"none", "newCommand"}

\* strings.SplitN(env, "=", 2) on an entry that has a "=": the name is what
\* precedes the first "=", the value what follows it
SplitN(env) ==
  LET k == IndexOf(env, "=") IN
  [name |-> SubSeq(env, 1, k - 1), value |-> SubSeq(env, k + 1, Len(env))]

\* the read of e[1] in createEnvVars is out of range: strings.SplitN gave
\* one element for an entry without a "="
outOfRange(envs) == \E i \in 1..Len(envs) : IndexOf(envs[i], "=") = 0

EnvVar(n, v) == [Name |-> n, Value |-> v]

\* sort.Strings on a set of distinct strings
RECURSIVE SortStrings(_)
SortStrings(keys) ==
  IF keys = {} THEN <<>>
  ELSE LET m == CHOOSE x \in keys :
                  \A y \in keys \ {x} : BytesLess(PiecesBytes(x), PiecesBytes(y))
       IN <<m>> \o SortStrings(keys \ {m})

\* a mutant of createEnvVars: the first value of a name is kept
createEnvVarsFirstWins(envs) ==
  LET envMap(n) ==
        SplitN(envs[CHOOSE i \in 1..Len(envs) :
                      /\ SplitN(envs[i]).name = n
                      /\ \A j \in 1..(i - 1) : SplitN(envs[j]).name # n]).value
      envKeys == SortStrings({SplitN(envs[i]).name : i \in 1..Len(envs)})
  IN [i \in 1..Len(envKeys) |-> EnvVar(envKeys[i], envMap(envKeys[i]))]

\* createEnvVars: the map from name to value keeps the value of the last
\* entry of a name, and the variables are listed in the order of the names
createEnvVars(envs) ==
  LET envMap(n) ==
        SplitN(envs[CHOOSE i \in 1..Len(envs) :
                      /\ SplitN(envs[i]).name = n
                      /\ \A j \in (i + 1)..Len(envs) : SplitN(envs[j]).name # n]).value
      envKeys == SortStrings({SplitN(envs[i]).name : i \in 1..Len(envs)})
  IN [i \in 1..Len(envKeys) |-> EnvVar(envKeys[i], envMap(envKeys[i]))]

\* sort.Strings on a list of strings given by their pieces
sortStrings(list) ==
  LET Before(i, j) ==
        \/ BytesLess(PiecesBytes(list[i]), PiecesBytes(list[j]))
        \/ PiecesBytes(list[i]) = PiecesBytes(list[j]) /\ i < j
      place == [i \in 1..Len(list) |->
                  1 + Cardinality({j \in 1..Len(list) : Before(j, i)})]
  IN [k \in 1..Len(list) |->
        list[CHOOSE i \in 1..Len(list) : place[i] = k]] \o <<>>

\* the loops of newCommand over the output files or the output
\* directories: the sorted root-relative paths, or the failure of rootRel
\* on a path, which a path out of the root is as well
outputPaths(req, paths, fail) ==
  LET Sorted(rels) ==
        IF paths # <<>> /\ (fail \/ \E i \in 1..Len(rels) : rels[i] = OutOfRoot)
        THEN [err |-> TRUE, paths |-> <<>>]
        ELSE [err |-> FALSE,
              paths |-> sortStrings([i \in 1..Len(rels) |->
                                       IF req.cmdConfig.WindowsCross
                                       THEN ToPosixStr(rels[i]) ELSE rels[i]])]
  IN Sorted([i \in 1..Len(paths) |->
               nameRootRel(req.filepath, paths[i], req.cwd, req.rootDir)])

\* newCommand: the arguments, the environment, the platform and the
\* outputs of the Command.  The request's property list is sorted in place
\* and the Command shares it; fail tells that rootRel fails on an output
newCommand(req, fail) ==
  LET Made(sorted, files, dirs) ==
        [r |-> [req EXCEPT !.platform = sorted],
         err |-> files.err \/ dirs.err,
         command |-> [Arguments |-> req.args,
                      EnvironmentVariables |-> createEnvVars(req.envs),
                      Platform |-> sorted,
                      OutputFiles |-> files.paths,
                      OutputDirectories |-> dirs.paths, set |-> TRUE]]
  IN Made(SortByName(req.platform),
          outputPaths(req, req.outputs, fail),
          outputPaths(req, req.outputDirs, fail))

\* digest.Proto: the serialized message, which stands for its digest too
\* (two messages have one digest only when they are the same message)
Proto(msg) == ToString(msg)

\* r.action as it is serialized: its CommandDigest and its InputRootDigest
Action(req) ==
  [CommandDigest |-> req.commandDigest, InputRootDigest |-> req.inputRootDigest]

\* a mutant of setupNewAction: the Action is serialized before its
\* CommandDigest is set
setupNewActionDigestsFirst(req, fail) ==
  IF req.err # Nil THEN StageResult(req, FALSE, Nil, <<>>)
  ELSE IF outOfRange(req.envs)
  THEN StageResult([req EXCEPT !.panicked = TRUE], FALSE, Nil, <<>>)
  ELSE
  LET Digested(c) ==
        IF c.err
        THEN StageResult([c.r EXCEPT !.err = StatusErr("Unknown", "newCommand")],
                         FALSE, Nil, <<>>)
        ELSE IF fail = "digestCommand"
        THEN StageResult([c.r EXCEPT !.err = StatusErr("Unknown", fail)], FALSE, Nil, <<>>)
        ELSE
        LET data == Proto(c.command)
            early == Proto(Action(c.r))
            r1 == [c.r EXCEPT !.command = c.command,
                              !.digestStore = Append(@, data),
                              !.commandDigest = data]
        IN
        IF fail = "digestAction"
        THEN StageResult([r1 EXCEPT !.err = StatusErr("Unknown", fail)], FALSE, Nil, <<>>)
        ELSE StageResult([r1 EXCEPT !.digestStore = Append(@, early),
                                    !.actionDigest = early], FALSE, Nil, <<>>)
  IN Digested(newCommand(req, fail = "newCommand"))

\* setupNewAction; fail is the point at which it fails
setupNewAction(req, fail) ==
  IF req.err # Nil THEN StageResult(req, FALSE, Nil, <<>>)
  ELSE IF outOfRange(req.envs)
  THEN StageResult([req EXCEPT !.panicked = TRUE], FALSE, Nil, <<>>)
  ELSE
  LET Digested(c) ==
        IF c.err
        THEN StageResult([c.r EXCEPT !.err = StatusErr("Unknown", "newCommand")],
                         FALSE, Nil, <<>>)
        ELSE IF fail = "digestCommand"
        THEN StageResult([c.r EXCEPT !.err = StatusErr("Unknown", fail)], FALSE, Nil, <<>>)
        ELSE
        LET data == Proto(c.command)
            r1 == [c.r EXCEPT !.command = c.command,
                              !.digestStore = Append(@, data),
                              !.commandDigest = data]
        IN
        IF fail = "digestAction"
        THEN StageResult([r1 EXCEPT !.err = StatusErr("Unknown", fail)], FALSE, Nil, <<>>)
        ELSE LET adata == Proto(Action(r1))
             IN StageResult([r1 EXCEPT !.digestStore = Append(@, adata),
                                       !.actionDigest = adata], FALSE, Nil, <<>>)
  IN Digested(newCommand(req, fail = "newCommand"))

-----------------------------------------------------------------------------
(* checkCache, missingBlobs, uploadBlobs, executeAction.                   *)

\* what checkCache hands back: the ActionResult ("nil" for none), the
\* cached flag, the severity of what it logged and the calls it issued
CacheResult(result, c, level, cs) ==
  [result |-> result, cached |-> c, log |-> level, calls |-> cs]

\* the answers of GetActionResult: an ActionResult or a failure code
CacheAnswers == {"ActionResult"} \cup ErrorCodes

\* a mutant of checkCache: a failure that is neither NotFound nor a
\* transient one is recorded as the request's error
checkCacheRecordsError(req, greq, answer) ==
  IF req.err # Nil THEN [r |-> req, res |-> CacheResult("nil", TRUE, "none", <<>>)]
  ELSE IF skipCacheLookup(greq)
  THEN [r |-> req, res |-> CacheResult("nil", FALSE, "info", <<>>)]
  ELSE
  LET get == <<Call("GetActionResult", answer)>> IN
  IF answer # "ActionResult"
  THEN CASE answer = "NotFound" ->
              [r |-> req, res |-> CacheResult("nil", FALSE, "info", get)]
         [] answer \in {"Unavailable", "Canceled", "Aborted"} ->
              [r |-> req, res |-> CacheResult("nil", FALSE, "warn", get)]
         [] OTHER ->
              [r |-> [req EXCEPT !.err = StatusErr(answer, "GetActionResult")],
               res |-> CacheResult("nil", TRUE, "error", get)]
  ELSE [r |-> req, res |-> CacheResult("ActionResult", TRUE, "none", get)]

\* a mutant of checkCache: a transient failure is recorded as the
\* request's error
checkCacheTransientIsError(req, greq, answer) ==
  IF req.err # Nil THEN [r |-> req, res |-> CacheResult("nil", TRUE, "none", <<>>)]
  ELSE IF skipCacheLookup(greq)
  THEN [r |-> req, res |-> CacheResult("nil", FALSE, "info", <<>>)]
  ELSE
  LET get == <<Call("GetActionResult", answer)>> IN
  IF answer # "ActionResult"
  THEN CASE answer = "NotFound" ->
              [r |-> req, res |-> CacheResult("nil", FALSE, "info", get)]
         [] answer \in {"Unavailable", "Canceled", "Aborted"} ->
              [r |-> [req EXCEPT !.err = StatusErr(answer, "GetActionResult")],
               res |-> CacheResult("nil", TRUE, "warn", get)]
         [] OTHER ->
              [r |-> req, res |-> CacheResult("nil", FALSE, "error", get)]
  ELSE [r |-> req, res |-> CacheResult("ActionResult", TRUE, "none", get)]

\* a mutant of checkCache: a hit is handed back as a miss
checkCacheHitAsMiss(req, greq, answer) ==
  IF req.err # Nil THEN [r |-> req, res |-> CacheResult("nil", TRUE, "none", <<>>)]
  ELSE IF skipCacheLookup(greq)
  THEN [r |-> req, res |-> CacheResult("nil", FALSE, "info", <<>>)]
  ELSE
  LET get == <<Call("GetActionResult", answer)>> IN
  IF answer # "ActionResult"
  THEN [r |-> req, res |-> CacheResult("nil", FALSE, "info", get)]
  ELSE [r |-> req, res |-> CacheResult("ActionResult", FALSE, "none", get)]

\* a mutant of checkCache: the recorded error is not looked at
checkCacheNoGuard(req, greq, answer) ==
  IF skipCacheLookup(greq)
  THEN [r |-> req, res |-> CacheResult("nil", FALSE, "info", <<>>)]
  ELSE
  LET get == <<Call("GetActionResult", answer)>> IN
  IF answer # "ActionResult"
  THEN [r |-> req, res |-> CacheResult("nil", FALSE, "info", get)]
  ELSE [r |-> req, res |-> CacheResult("ActionResult", TRUE, "none", get)]

\* checkCache; answer is what GetActionResult answers when it is asked
checkCache(req, greq, answer) ==
  IF req.err # Nil THEN [r |-> req, res |-> CacheResult("nil", TRUE, "none", <<>>)]
  ELSE IF skipCacheLookup(greq)
  THEN [r |-> req, res |-> CacheResult("nil", FALSE, "info", <<>>)]
  ELSE
  LET get == <<Call("GetActionResult", answer)>> IN
  IF answer # "ActionResult"
  THEN CASE answer = "NotFound" ->
              [r |-> req, res |-> CacheResult("nil", FALSE, "info", get)]
         [] answer \in {"Unavailable", "Canceled", "Aborted"} ->
              [r |-> req, res |-> CacheResult("nil", FALSE, "warn", get)]
         [] OTHER ->
              [r |-> req, res |-> CacheResult("nil", FALSE, "error", get)]
  ELSE [r |-> req, res |-> CacheResult("ActionResult", TRUE, "none", get)]

\* the answers of cas.Missing after the retries: the missing blobs or an
\* error; an input file's blob carries its filename, the blob of the
\* wrapper script or of a message does not
MissingAnswers ==
  {[err |-> Nil, blobs |-> b] : b \in {<<>>, <<"a.c">>, <<"b.h", "", "a.c">>}}
  \cup {[err |-> StatusErr(c, "cas.Missing"), blobs |-> <<>>] : c \in ErrorCodes}

\* missingBlobs: the request, the blobs and the error it returns
missingBlobs(req, answer) ==
  IF req.err # Nil
  THEN [r |-> req, blobs |-> <<>>, err |-> req.err, calls |-> <<>>]
  ELSE
  LET find == <<Call("FindMissingBlobs", "")>> IN
  IF answer.err # Nil
  THEN [r |-> [req EXCEPT !.err = answer.err, !.queried = req.digestStore],
        blobs |-> <<>>, err |-> answer.err, calls |-> find]
  ELSE [r |-> [req EXCEPT !.queried = req.digestStore], blobs |-> answer.blobs,
        err |-> Nil, calls |-> find]

\* the answers of cas.Upload for the blobs handed to it: success, a
\* cas.MissingError naming some of them, or another error
UploadAnswers(bs) ==
  {[kind |-> "ok", err |-> Nil, failed |-> <<>>]}
  \cup {[kind |-> "MissingError", err |-> StatusErr("Unknown", "cas.MissingError"),
         failed |-> SubSeq(bs, 1, n)] : n \in 1..Len(bs)}
  \cup {[kind |-> "error", err |-> StatusErr(c, "cas.Upload"), failed |-> <<>>] :
          c \in ErrorCodes}

\* a mutant of missingInputsOf: every failed blob is taken for an input
missingInputsOfAnyBlob(answer) ==
  IF answer.kind = "MissingError" THEN answer.failed ELSE <<>>

\* the filenames uploadBlobs collects from a cas.MissingError: those of
\* the failed blobs inputForDigest finds an input file for
missingInputsOf(answer) ==
  IF answer.kind = "MissingError"
  THEN SelectSeq(answer.failed, LAMBDA b : b # "")
  ELSE <<>>

\* the missing inputs and the reason uploadBlobs gives for them
FailedPairs(answer) ==
  [i \in 1..Len(missingInputsOf(answer)) |->
     <<missingInputsOf(answer)[i], "upload failed">>]

\* the call of cas.Upload, with the kind of its answer and the blobs a
\* cas.MissingError names
Upload(answer) == <<"CAS.Upload", answer.kind, answer.failed>>

\* uploadBlobs; shuffled is the shuffle of thinOutMissing, sorted the
\* order sort.Sort leaves
uploadBlobs(req, greq, bs, answer, shuffled, sorted) ==
  IF req.err # Nil THEN StageResult(req, FALSE, req.err, <<>>)
  ELSE
  LET up == <<Upload(answer)>> IN
  IF answer.err = Nil THEN StageResult(req, FALSE, Nil, up)
  ELSE
  LET missingInputs == missingInputsOf(answer) IN
  IF Len(missingInputs) > 0
  THEN LET resp1 == [req.gomaResp EXCEPT
                       !.MissingInput = missingInputs,
                       !.MissingReason =
                          [i \in 1..Len(missingInputs) |-> "upload failed"]]
           resp2 == sortMissing(greq.Input,
                                thinOutMissing(resp1, missingInputLimit, shuffled),
                                sorted)
       IN StageResult(
            [req EXCEPT !.gomaResp = resp2,
                        !.missing = [i \in 1..Len(missingInputs) |->
                                       <<missingInputs[i], "upload failed">>]],
            TRUE, Nil, up)
  ELSE StageResult([req EXCEPT !.err = answer.err], FALSE, answer.err, up)

\* an ExecuteResponse; Result.present is false for a nil Result
Response(c, status, result) ==
  [CachedResult |-> c, Status |-> status, Result |-> result]

NilResult == [present |-> FALSE, ExitCode |-> 0, docker |-> FALSE, dockerErr |-> FALSE]

\* an ActionResult; docker says that its stdout has the text of the docker
\* failure, dockerErr that its stderr has
ActionResult(exit, docker) ==
  [present |-> TRUE, ExitCode |-> exit, docker |-> docker, dockerErr |-> FALSE]

\* an ActionResult with the text of the docker failure in stderr only
StderrResult(exit) == [ActionResult(exit, FALSE) EXCEPT !.dockerErr = TRUE]

\* the ExecuteResponse a nil pointer stands for
NilResponse == Response(FALSE, "OK", NilResult)

\* the answers of ExecuteAndWait: a response or an error
ExecuteAnswers ==
  {[err |-> Nil, resp |-> Response(c, st, res)] :
     c \in BOOLEAN, st \in {"OK", "Internal"},
     res \in {NilResult, ActionResult(0, FALSE), ActionResult(1, TRUE),
              ActionResult(127, TRUE), ActionResult(127, FALSE), StderrResult(127)}}
  \cup {[err |-> StatusErr(c, "Execute"), resp |-> NilResponse] : c \in ErrorCodes}

\* executeAction
executeAction(req, greq, answer) ==
  IF req.err # Nil
  THEN [r |-> req, eresp |-> NilResponse, err |-> Err(req.err), calls |-> <<>>]
  ELSE
  LET exec == <<Call("Execute",
                     IF skipCacheLookup(greq) THEN "SkipCacheLookup=true"
                     ELSE "SkipCacheLookup=false")>>
  IN
  IF answer.err # Nil
  THEN [r |-> [req EXCEPT !.err = answer.err], eresp |-> NilResponse,
        err |-> Err(answer.err), calls |-> exec]
  ELSE [r |-> req, eresp |-> answer.resp, err |-> Nil, calls |-> exec]

-----------------------------------------------------------------------------
(* newResp.                                                                *)

\* the answers of a byte-stream fetch: success or an error
FetchAnswers ==
  {Nil, StatusErr("Unauthenticated", "ByteStream"), StatusErr("Internal", "ByteStream")}

\* what happens to one output of the result: it is fetched, its path
\* cannot be made relative to the working directory, or its fetch fails
OutputAnswers == {"ok", "Rel", "Unauthenticated", "NotFound"}

\* a mutant of the classification: the cached flag is looked at first
cacheHitCachedFirst(e, c) ==
  CASE c -> "MEM_CACHE"
    [] e.CachedResult -> "STORAGE_CACHE"
    [] OTHER -> "NO_CACHE"

\* a mutant of the classification: a hit of the lookup counts as a
\* result the backend reports as cached
cacheHitStorageForCached(e, c) ==
  CASE e.CachedResult -> "STORAGE_CACHE"
    [] c -> "STORAGE_CACHE"
    [] OTHER -> "NO_CACHE"

\* the switch of newResp that sets CacheHit
cacheHit(e, c) ==
  CASE e.CachedResult -> "STORAGE_CACHE"
    [] c -> "MEM_CACHE"
    [] OTHER -> "NO_CACHE"

\* gomaOutput.stdoutData / stderrData: a failure other than Unauthenticated
\* is reported in the response
FetchStd(req, what, answer) ==
  IF answer # Nil /\ Code(answer) # "Unauthenticated"
  THEN [req EXCEPT !.gomaResp = AppendMessage(@, <<what, Code(answer), "">>)]
  ELSE req

\* the loop of newResp over the output files (or directories): the
\* request, the error it stopped at and the fetches it issued
RECURSIVE FetchOutputs(_, _, _)
FetchOutputs(req, what, answers) ==
  IF answers = <<>> \/ req.err # Nil
  THEN [r |-> req, stopped |-> FALSE, calls |-> <<>>]
  ELSE
  LET a == Head(answers) IN
  IF a = "Rel"
  THEN FetchOutputs([req EXCEPT !.gomaResp = AppendMessage(@, <<"output path", what, "">>)],
                    what, Tail(answers))
  ELSE
  LET fetch == <<Fetch(what, IF a = "ok" THEN "OK" ELSE a)>> IN
  IF a # "ok"
  THEN [r |-> [req EXCEPT !.err = StatusErr(a, what)], stopped |-> TRUE, calls |-> fetch]
  ELSE LET rest == FetchOutputs(req, what, Tail(answers))
       IN [rest EXCEPT !.calls = fetch \o @]

\* a mutant of executeError: the Status is not looked at
executeErrorIgnoresStatus(e) ==
  CASE ~e.Result.present -> <<"unexpected response message", "", "">>
    [] OTHER -> <<>>

\* the message newResp answers an ExecuteResponse without a result to
\* look at with: a Status that is not OK, no Result; <<>> for none
executeError(e) ==
  CASE e.Status # "OK" -> <<"Execute error", e.Status, "">>
    [] ~e.Result.present -> <<"unexpected response message", "", "">>
    [] OTHER -> <<>>

\* a mutant of unauthenticated: no answer counts as refused
unauthenticatedNever(answer) == FALSE

\* status.Code(err) == codes.Unauthenticated for the answer of a fetch
unauthenticated(answer) == Code(answer) = "Unauthenticated"

\* a mutant of dockerError: the exit code is not looked at
dockerErrorAnyExit(e, stdout) == stdout = Nil /\ e.Result.docker

\* the docker failure: stdout was fetched, is not empty and has the text,
\* and the exit code is 127
dockerError(e, stdout) ==
  stdout = Nil /\ e.Result.docker /\ e.Result.ExitCode = 127

\* a mutant of copiesExit: the messages are not looked at
copiesExitAlways(resp) == TRUE

\* the test before newResp copies the exit code: the response has no
\* error message
copiesExit(resp) == Len(resp.ErrorMessage) = 0

\* newResp; o gives the answers of the byte stream and the file service
newResp(req, e, c, o) ==
  IF req.err # Nil THEN StageResult(req, FALSE, Err(req.err), <<>>)
  ELSE
  LET r1 == [req EXCEPT !.gomaResp.CacheKey = req.actionDigest,
                        !.gomaResp.CacheHit = cacheHit(e, c)]
  IN
  IF executeError(e) # <<>>
  THEN StageResult([r1 EXCEPT !.gomaResp = AppendMessage(@, executeError(e))],
                   TRUE, Nil, <<>>)
  ELSE
  LET out == <<Fetch("stdout", Code(o.stdout))>>
      r2 == FetchStd(r1, "stdout", o.stdout)
  IN
  IF unauthenticated(o.stdout)
  THEN StageResult([r2 EXCEPT !.err = o.stdout], TRUE, Err(o.stdout), out)
  ELSE
  LET std == out \o <<Fetch("stderr", Code(o.stderr))>>
      r3 == FetchStd(r2, "stderr", o.stderr)
  IN
  IF unauthenticated(o.stderr)
  THEN StageResult([r3 EXCEPT !.err = o.stderr], TRUE, Err(o.stderr), std)
  ELSE IF dockerError(e, o.stdout)
  THEN StageResult(r3, TRUE, StatusErr("Internal", "docker error"), std)
  ELSE
  LET files == FetchOutputs(r3, "file", o.files) IN
  IF files.stopped
  THEN StageResult(files.r, TRUE, Err(files.r.err), std \o files.calls)
  ELSE
  LET dirs == FetchOutputs(files.r, "directory", o.dirs)
      cs == std \o files.calls \o dirs.calls
  IN
  IF dirs.stopped
  THEN StageResult(dirs.r, TRUE, Err(dirs.r.err), cs)
  ELSE
  LET r4 == IF copiesExit(dirs.r.gomaResp)
            THEN [dirs.r EXCEPT !.gomaResp.ExitStatusSet = TRUE,
                                !.gomaResp.ExitStatus = e.Result.ExitCode]
            ELSE dirs.r
  IN
  IF o.size = "reduceRespSize failed"
  THEN StageResult(r4, FALSE, StatusErr("Unknown", "failed to reduce resp size"),
                   cs \o <<Call("FileService.upload", "output")>>)
  ELSE StageResult(r4, TRUE, Err(r4.err),
                   IF o.size = "reduced"
                   THEN cs \o <<Call("FileService.upload", "output")>> ELSE cs)

-----------------------------------------------------------------------------
(* The pipeline: the stages in the order of the state machine              *)
(* NEW -> assemble -> READY -> checkCache hit -> TRANSLATE / miss ->       *)
(* MISSING_BLOBS -> upload -> EXEC -> complete -> TRANSLATE.               *)

\* the stage called after stage has returned: a stage that returns a
\* response ends the request, a cached result goes to the translation
NextStage(stage, resp, isCached) ==
  CASE stage = "getInventoryData" -> IF resp THEN "done" ELSE "newInputTree"
    [] stage = "newInputTree" -> IF resp THEN "done" ELSE "setupNewAction"
    [] stage = "setupNewAction" -> "checkCache"
    [] stage = "checkCache" -> IF isCached THEN "newResp" ELSE "missingBlobs"
    [] stage = "missingBlobs" -> "uploadBlobs"
    [] stage = "uploadBlobs" -> IF resp THEN "done" ELSE "executeAction"
    [] stage = "executeAction" -> "newResp"
    [] OTHER -> "done"

\* the ExecuteResponse the pipeline builds from the result of checkCache
ResponseOfCache(result) ==
  Response(FALSE, "OK",
           IF result = "nil" THEN NilResult ELSE ActionResult(0, FALSE))

Returned(stage, resp, e) == [by |-> stage, hasResp |-> resp, err |-> e]

\* the bookkeeping every stage shares: the request after the stage, what
\* the stage returned, the calls it issued and the stage called next; a
\* stage that panics returns nothing and no stage follows it
Step(stage, req, resp, e, cs, isCached) ==
  /\ r' = req
  /\ ret' = IF req.panicked THEN ret ELSE Returned(stage, resp, e)
  /\ calls' = calls \o cs
  /\ ran' = Append(ran, stage)
  /\ pc' = IF req.panicked THEN "panic" ELSE NextStage(stage, resp, isCached)

GetInventoryDataStage ==
  /\ pc = "getInventoryData"
  /\ LET res == getInventoryData(r, gomaReq, inventory)
     IN Step("getInventoryData", res.r, res.resp, res.err, res.calls, FALSE)
  /\ UNCHANGED <<gomaReq, inventory, f, cached, blobs, eresp, eg, wg>>

\* the orders in which n tasks that run side by side come to a call or
\* return: the scheduler can bring any of them first
CallOrders(n) == Orders(1..n)

\* the orders in which the tasks of inputFiles call the file service: the
\* scheduler can bring any of them first.  A call is recorded with the
\* filename of its input, so of the orders that give the same list of
\* calls one is taken
DigestOrders(inputs, answers) ==
  LET asked == Asked(inputs, answers)
  IN Arranged([k \in 1..Len(asked) |-> k] \o <<>>,
              [k \in 1..Len(asked) |-> inputs[asked[k]].Filename])

\* the context of the tasks is cancelled when a task returns an error: a
\* call is answered with the error of the context only in a task that
\* returns after a task whose call was answered otherwise and that failed
Cancellable(ks, returned) ==
  \A p \in 1..Len(returned) :
    ks[returned[p]] = "canceled" =>
      \E q \in 1..(p - 1) : ks[returned[q]] \notin {"ok", "canceled"}

\* what the tasks of the batches of the inputs can meet when gi.upload
\* answers with one of kinds or, once the context is cancelled, with the
\* error of the context
InputUploadAnswers(kinds, inputs) ==
  LET n == Len(Batches(inputs))
      answered == kinds \cup {"canceled"}
  IN UNION {{UploadAnswer(ks, called, returned) :
               called \in CallOrders(n),
               returned \in {o \in CallOrders(n) : Cancellable(ks, o)}} :
             ks \in [1..n -> answered]}

\* the inputs newInputTree uploads when the file service answers the
\* inputs with answers
UploadsFor(req, greq, answers, wd) ==
  Uploads(reqInputs(req, greq),
          inputFiles(reqInputs(req, greq), answers, req.filepath, wd))

\* what thinOutMissing can be handed as the shuffled list: the list is
\* shuffled when it has missingInputLimit names or more
ShuffledFor(list) ==
  IF Len(list) < missingInputLimit THEN {list} ELSE randShuffle(list)

\* the orders sort.Sort can leave the names in that thinOutMissing keeps;
\* pairs are the missing names and reasons as they were collected
SortedFor(inputs, pairs, shuffled) ==
  LET names == IF Len(pairs) < missingInputLimit THEN shuffled
               ELSE SubSeq(shuffled, 1, missingInputLimit)
  IN SortOrders(sortKeys(inputs, names),
                [k \in 1..Len(names) |-> <<names[k], pairs[k][2]>>])

\* the missing inputs newInputTree collects under the answers
MissingPairs(inputs, answers) ==
  MissingOf(inputFiles(inputs, answers, "posixpath", <<>>))

\* the names of the pairs
NamesOf(pairs) == [k \in 1..Len(pairs) |-> pairs[k][1]] \o <<>>

NewInputTreeStage(fails, wds, inputAnswers, uploadKinds) ==
  /\ pc = "newInputTree"
  /\ \E fail \in fails, rootDir \in RootDirs(r.filepath),
        needChroot \in (IF r.allowChroot THEN BOOLEAN ELSE {FALSE}),
        d1 \in Draws(f.HardeningRatio), d2 \in Draws(f.NsjailRatio),
        wd \in wds \cap WorkDirs(r.filepath) :
       \E answers \in {a \in inputAnswers : Len(a) = Len(reqInputs(r, gomaReq))} :
         LET Run(pairs, orders, uploads) ==
               \E shuffled \in ShuffledFor(NamesOf(pairs)) :
               \E sorted \in SortedFor(gomaReq.Input, pairs, shuffled) :
               \E digestOrder \in orders :
               \E upload \in uploads :
                 LET s == [fail |-> fail, rootDir |-> rootDir, needChroot |-> needChroot,
                           d1 |-> d1, d2 |-> d2, wd |-> wd, inputs |-> answers,
                           shuffled |-> shuffled, sorted |-> sorted,
                           digestOrder |-> digestOrder, upload |-> upload]
                     Returns(res) ==
                       Step("newInputTree", res.r, res.resp, res.err, res.calls, FALSE)
                 IN Returns(newInputTree(r, gomaReq, f, s))
         IN Run(MissingPairs(reqInputs(r, gomaReq), answers),
                DigestOrders(reqInputs(r, gomaReq), answers),
                InputUploadAnswers(uploadKinds, UploadsFor(r, gomaReq, answers, wd)))
  /\ UNCHANGED <<gomaReq, inventory, f, cached, blobs, eresp, eg, wg>>

SetupNewActionStage(fails) ==
  /\ pc = "setupNewAction"
  /\ \E fail \in fails :
       LET Returns(res) ==
             Step("setupNewAction", res.r, res.resp, res.err, res.calls, FALSE)
       IN Returns(setupNewAction(r, fail))
  /\ UNCHANGED <<gomaReq, inventory, f, cached, blobs, eresp, eg, wg>>

CheckCacheStage ==
  /\ pc = "checkCache"
  /\ \E answer \in CacheAnswers :
       LET res == checkCache(r, gomaReq, answer) IN
       /\ Step("checkCache", res.r, FALSE, Nil, res.res.calls, res.res.cached)
       /\ cached' = res.res.cached
       /\ eresp' = ResponseOfCache(res.res.result)
  /\ UNCHANGED <<gomaReq, inventory, f, blobs, eg, wg>>

\* the CAS is asked about the blobs of the request: those of its inputs
\* and, without a filename, the others
Known(answer) ==
  \A name \in {answer.blobs[i] : i \in 1..Len(answer.blobs)} \ {""} :
    LET named == {i \in 1..Len(answer.blobs) : answer.blobs[i] = name}
        inputs == {j \in 1..Len(gomaReq.Input) : gomaReq.Input[j].Filename = name}
    IN Cardinality(named) <= Cardinality(inputs)

MissingBlobsStage(answers) ==
  /\ pc = "missingBlobs"
  /\ \E answer \in {a \in answers : Known(a)} :
       LET res == missingBlobs(r, answer) IN
       /\ Step("missingBlobs", res.r, FALSE, res.err, res.calls, FALSE)
       /\ blobs' = res.blobs
  /\ UNCHANGED <<gomaReq, inventory, f, cached, eresp, eg, wg>>

UploadBlobsStage ==
  /\ pc = "uploadBlobs"
  /\ \E answer \in UploadAnswers(blobs) :
       \E shuffled \in ShuffledFor(missingInputsOf(answer)) :
       \E sorted \in SortedFor(gomaReq.Input, FailedPairs(answer), shuffled) :
         LET res == uploadBlobs(r, gomaReq, blobs, answer, shuffled, sorted)
         IN Step("uploadBlobs", res.r, res.resp, res.err, res.calls, FALSE)
  /\ blobs' = <<>>
  /\ UNCHANGED <<gomaReq, inventory, f, cached, eresp, eg, wg>>

ExecuteActionStage(answers) ==
  /\ pc = "executeAction"
  /\ \E answer \in answers :
       LET res == executeAction(r, gomaReq, answer) IN
       /\ Step("executeAction", res.r, FALSE, res.err, res.calls, FALSE)
       /\ eresp' = res.eresp
  /\ UNCHANGED <<gomaReq, inventory, f, cached, blobs, eg, wg>>

\* the lists of at most n answers for the outputs of a result
RECURSIVE OutputLists(_)
OutputLists(n) ==
  IF n = 0 THEN {<<>>}
  ELSE LET shorter == OutputLists(n - 1)
       IN shorter \cup {Append(l, a) : l \in {x \in shorter : Len(x) = n - 1},
                                       a \in OutputAnswers}

NewRespStage(stds, outs, sizes) ==
  /\ pc = "newResp"
  /\ \E so \in stds, se \in stds, files \in outs, dirs \in outs, size \in sizes :
       LET o == [stdout |-> so, stderr |-> se, files |-> files, dirs |-> dirs,
                 size |-> size]
           res == newResp(r, eresp, cached, o)
       IN Step("newResp", res.r, res.resp, res.err, res.calls, FALSE)
  /\ UNCHANGED <<gomaReq, inventory, f, cached, blobs, eresp, eg, wg>>

-----------------------------------------------------------------------------
(* Requests, inventories and adapters of the model.                        *)

\* the sequences over S of length at most n
SeqsUpTo(S, n) == UNION {[1..k -> S] : k \in 0..n}

\* the inputs of every request of the model: one with embedded content,
\* one given by its hash key
Input(filename, embedded, key) ==
  [Filename |-> filename, Embedded |-> embedded, HashKey |-> key, size |-> 0]

\* an input with embedded content that is size bytes long
SizedInput(filename, key, size) ==
  [Filename |-> filename, Embedded |-> TRUE, HashKey |-> key, size |-> size]

Inputs == <<Input("a.c", TRUE, "k1"), Input("b.h", FALSE, "k2")>>

\* the command line of every request of the model
Args == <<<<"clang">>, <<"-c">>, <<"a.c">>>>

Request(policy, overrides, relocatable) ==
  [CachePolicy |-> policy, PlatformProperties |-> overrides,
   Relocatable |-> relocatable, Input |-> Inputs, Arg |-> Args, Env |-> <<>>,
   Target |-> <<"x86_64">>, ToolchainIncluded |-> FALSE, ToolchainSpecs |-> <<>>,
   CxxSystemIncludePath |-> <<>>, SystemIncludePath |-> <<>>,
   SystemFrameworkPath |-> <<>>, ExpectedOutputFiles |-> <<>>,
   ExpectedOutputDirs |-> <<>>]

Config(pathType, cross, selector, props, nsjail) ==
  [PathType |-> pathType, WindowsCross |-> cross, ClangNeedTarget |-> FALSE,
   Selector |-> selector, Properties |-> props, HasNsjail |-> nsjail]

FileSpec(path, hash, symlink) == [Path |-> path, Hash |-> hash, Symlink |-> symlink]

Inventory(ok, config, files) == [pickOK |-> ok, cmdConfig |-> config, cmdFiles |-> files]

PosixFiles == <<FileSpec("/bin/clang", "h1", "")>>

WinFiles == <<FileSpec("C:\\bin\\clang-cl.bat", "h2", "")>>

\* the compiler configurations of the model with the platform properties props
Inventories(props) ==
  {Inventory(TRUE, Config("POSIX", FALSE, "clang", props, TRUE), PosixFiles),
   Inventory(TRUE, Config("WINDOWS", FALSE, "clang-cl", props, FALSE), WinFiles),
   Inventory(TRUE, Config("WINDOWS", TRUE, "clang-cl", props, FALSE), WinFiles)}

Adapter(disabled, hardening, nsjail) ==
  [DisableHardenings |-> disabled, HardeningRatio |-> hardening, NsjailRatio |-> nsjail,
   SymlinkAbsolutePathStrategy |-> "UNKNOWN"]

\* no run of uploadInputFiles or of inputFiles is followed task by task
NoTasks == [phase |-> "none"]

InitStages(requests, inventories, adapters) ==
  /\ pc = "getInventoryData"
  /\ gomaReq \in requests
  /\ inventory \in inventories
  /\ f \in adapters
  /\ r = NewRequest
  /\ cached = FALSE
  /\ blobs = <<>>
  /\ eresp = NilResponse
  /\ ret = Returned("none", FALSE, Nil)
  /\ calls = <<>>
  /\ ran = <<>>

InitWith(requests, inventories, adapters) ==
  /\ InitStages(requests, inventories, adapters)
  /\ eg = NoTasks
  /\ wg = NoTasks

-----------------------------------------------------------------------------
(* Spec: the whole pipeline, for every cache policy and every answer of    *)
(* the action cache, the CAS and the execution service.                    *)

LinuxProps == <<Prop("container-image", "img1"), Prop("OSFamily", "Linux")>>

Init ==
  InitWith(
    {Request(p, o, rel) :
       p \in CachePolicies,
       o \in {<<>>, <<Prop("OSFamily", "Windows")>>},
       rel \in BOOLEAN},
    {Inventory(TRUE, Config("POSIX", FALSE, "clang", LinuxProps, TRUE), PosixFiles),
     Inventory(FALSE, NoConfig, <<>>),
     Inventory(TRUE, Config("UNKNOWN_PATH_TYPE", FALSE, "clang", <<>>, FALSE),
               PosixFiles)},
    {Adapter(<<>>, 0, 0)})

\* the answers of ExecuteAndWait of this specification
PipelineExecuteAnswers ==
  {a \in ExecuteAnswers :
     a.err = Nil => a.resp \in {Response(TRUE, "OK", ActionResult(0, FALSE)),
                                Response(FALSE, "OK", ActionResult(0, FALSE)),
                                Response(FALSE, "OK", ActionResult(127, TRUE)),
                                Response(FALSE, "Internal", NilResult),
                                Response(FALSE, "OK", NilResult)}}

\* the answers of the byte stream, of the output fetches and of the size cap
\* that the pipeline is run with
PipelineFetchAnswers == {Nil, StatusErr("Unauthenticated", "ByteStream")}

PipelineOutputLists == {<<>>, <<"NotFound">>}

PipelineSizes == {"fits", "reduceRespSize failed"}

\* the working directory is the root, and the upload of the embedded
\* inputs succeeds
RootOnly == {<<>>}

UploadOK == {"ok"}

\* the answers for the two inputs that the pipeline is run with
PipelineInputAnswers ==
  {<<"ok", "ok">>, <<"ok", "rootRel error">>, <<"not found", "ok">>,
   <<"ok", "unavailable">>, <<"not found", "unavailable">>, <<"errOutOfRoot", "ok">>}

AllFound == {<<"ok", "ok">>}

Next ==
  \/ GetInventoryDataStage
  \/ NewInputTreeStage(InputTreeFailures, RootOnly, PipelineInputAnswers, UploadOK)
  \/ SetupNewActionStage(SetupFailures)
  \/ CheckCacheStage
  \/ MissingBlobsStage(MissingAnswers)
  \/ UploadBlobsStage
  \/ ExecuteActionStage(PipelineExecuteAnswers)
  \/ NewRespStage(PipelineFetchAnswers, PipelineOutputLists, PipelineSizes)

Spec == Init /\ [][Next]_vars

-----------------------------------------------------------------------------
(* SpecPlatform: the assembly of the platform, from the inventory's and    *)
(* the requester's property lists to the Command, under every strategy.    *)

InvPropUniverse ==
  {Prop("container-image", "img1"), Prop("container-image", "img2"),
   Prop("OSFamily", "Linux")}

OverrideUniverse ==
  {Prop("container-image", "img3"), Prop("InputRootAbsolutePath", "/cli"),
   Prop("dockerRuntime", "runsc"), Prop("dockerRuntime", "kata"),
   Prop("OSFamily", "Windows")}

\* a request with one input, whose task is the only one of inputFiles
OneInput(policy, overrides, relocatable) ==
  [Request(policy, overrides, relocatable) EXCEPT !.Input = <<Input("a.c", TRUE, "k1")>>]

\* the file service has the input
OneFound == {<<"ok">>}

InitPlatform ==
  InitWith(
    {OneInput("LOOKUP_AND_STORE", o, rel) :
       o \in SeqsUpTo(OverrideUniverse, MaxOverrides), rel \in BOOLEAN},
    UNION {Inventories(props) : props \in SeqsUpTo(InvPropUniverse, MaxInvProps)},
    {Adapter(<<>>, 50, 50)})

\* the points of failure the platform's assembly is run with
PlatformTreeFailures == {"none", "wrapperForWindows"}

PlatformSetupFailures == {"none"}

NextPlatform ==
  \/ GetInventoryDataStage
  \/ NewInputTreeStage(PlatformTreeFailures, RootOnly, OneFound, UploadOK)
  \/ SetupNewActionStage(PlatformSetupFailures)

SpecPlatform == InitPlatform /\ [][NextPlatform]_vars

-----------------------------------------------------------------------------
(* SpecCommand: the assembly of the command line and of the environment,   *)
(* from the client's environment, the working directory and the compiler   *)
(* configuration to the Command, under every strategy.                     *)

\* the entries of the client's environment
EnvUniverse ==
  {<<"PWD", "=", "/work">>,
   <<"PWDX", "=", "1">>,
   <<"INCLUDE", "=", "C:", "\\", "inc", ";", "D:", "\\", "sdk">>,
   <<"LIB", "=", "C:", "\\", "lib">>,
   <<"WORK_DIR", "=", "/x">>,
   <<"PATH", "=", "/bin">>,
   <<"PATH", "=", "a", "=", "b">>}

CommandRequest(env, relocatable) ==
  [OneInput("LOOKUP_AND_STORE", <<>>, relocatable) EXCEPT !.Env = env]

\* the compiler configurations: every selector relocatableReq knows and
\* two it does not, on POSIX, on Windows and under windows_cross
CommandInventories ==
  {Inventory(TRUE, Config("POSIX", FALSE, "clang", LinuxProps, TRUE), PosixFiles),
   Inventory(TRUE, Config("POSIX", FALSE, "gcc", LinuxProps, FALSE), PosixFiles),
   Inventory(TRUE, Config("POSIX", FALSE, "g++", LinuxProps, FALSE), PosixFiles),
   Inventory(TRUE, Config("POSIX", FALSE, "clang++", LinuxProps, FALSE), PosixFiles),
   Inventory(TRUE, Config("POSIX", FALSE, "javac", LinuxProps, FALSE), PosixFiles),
   Inventory(TRUE, Config("POSIX", FALSE, "clang-tidy", LinuxProps, FALSE), PosixFiles),
   Inventory(TRUE, Config("WINDOWS", FALSE, "clang-cl", <<>>, FALSE), WinFiles),
   Inventory(TRUE, Config("WINDOWS", FALSE, "cl.exe", <<>>, FALSE), WinFiles),
   Inventory(TRUE, Config("WINDOWS", FALSE, "javac", <<>>, FALSE), WinFiles),
   Inventory(TRUE, Config("WINDOWS", TRUE, "clang-cl", LinuxProps, TRUE), WinFiles),
   Inventory(TRUE, Config("WINDOWS", TRUE, "cl.exe", LinuxProps, FALSE), WinFiles)}

InitCommand ==
  InitWith(
    {CommandRequest(env, rel) :
       env \in SeqsUpTo(EnvUniverse, MaxEnvs), rel \in BOOLEAN},
    CommandInventories,
    {Adapter(<<>>, 50, 100)})

\* the points of failure the command's assembly is run with
CommandTreeFailures == {"none", "wrapperForWindows"}

CommandSetupFailures == {"none"}

AllWorkDirs == PosixWorkDirs \cup WinWorkDirs

NextCommand ==
  \/ GetInventoryDataStage
  \/ NewInputTreeStage(CommandTreeFailures, AllWorkDirs, OneFound, UploadOK)
  \/ SetupNewActionStage(CommandSetupFailures)

SpecCommand == InitCommand /\ [][NextCommand]_vars

-----------------------------------------------------------------------------
(* SpecStrategy: the strategies of newWrapperScript with their platform    *)
(* properties and their hardening, for every blocklist and every ratio.    *)

\* the properties of the compiler configurations: without and with a root
RootedProps == Append(LinuxProps, Prop("InputRootAbsolutePath", "/inv"))

\* command files of which the second is a symlink and the third has no hash
LinkedFiles ==
  <<FileSpec("/bin/clang", "h9", ""), FileSpec("/bin/cc", "h1", "/bin/clang"),
    FileSpec("/lib/libc", "", "")>>

StrategyInventories ==
  {Inventory(TRUE, Config("POSIX", FALSE, "clang", props, nsjail), files) :
     props \in {LinuxProps, RootedProps}, nsjail \in BOOLEAN,
     files \in {PosixFiles, LinkedFiles}}
  \cup {Inventory(TRUE, Config("WINDOWS", cross, "clang-cl", props, FALSE), WinFiles) :
          props \in {LinuxProps, RootedProps}, cross \in BOOLEAN}

\* the client's overrides: none, a root, a root and the runtime
StrategyOverrides ==
  {<<>>, <<Prop("InputRootAbsolutePath", "/cli")>>,
   <<Prop("dockerRuntime", "runsc"), Prop("InputRootAbsolutePath", "/cli")>>}

\* blocklists without and with the hashes "h1", "h2" and the empty hash,
\* under ratios of 0, 50 and 100 percent
StrategyAdapters ==
  {Adapter(hashes, hardening, nsjail) :
     hashes \in {<<>>, <<"", "h1", "h2">>}, hardening \in {0, 50, 100},
     nsjail \in {0, 50}}

InitStrategy ==
  InitWith({Request("STORE_ONLY", o, rel) : o \in StrategyOverrides, rel \in BOOLEAN},
           StrategyInventories,
           StrategyAdapters)

NextStrategy ==
  \/ GetInventoryDataStage
  \/ NewInputTreeStage(CommandTreeFailures, RootOnly, AllFound, UploadOK)
  \/ SetupNewActionStage(CommandSetupFailures)

SpecStrategy == InitStrategy /\ [][NextStrategy]_vars

-----------------------------------------------------------------------------
(* SpecInputs: the inputs of a request, from the answers of rootRel and of *)
(* the file service for each of them to the execution.                     *)

\* two inputs with embedded content, the first of which fills a batch
TwoBatches == <<SizedInput("a.c", "1", sizeLimit), SizedInput("b.h", "2", 0)>>

\* the input lists: the second input has embedded content or only a key
InputLists ==
  {Inputs, <<Input("a.c", TRUE, "k1"), Input("b.h", TRUE, "k2")>>, TwoBatches}

InputsRequest(inputs) ==
  [Request("STORE_ONLY", <<>>, TRUE) EXCEPT !.Input = inputs]

\* every answer for each of the two inputs
AllInputAnswers == [1..2 -> InputAnswers]

InitInputs ==
  InitWith({InputsRequest(inputs) : inputs \in InputLists},
           Inventories(LinuxProps),
           {Adapter(<<>>, 0, 0)})

\* the points of failure the inputs are run with
InputsTreeFailures == {"none", "treeBuild"}

\* the answers of ExecuteAndWait the inputs are run with
InputsExecuteAnswers ==
  {[err |-> Nil, resp |-> Response(FALSE, "OK", ActionResult(0, FALSE))],
   [err |-> StatusErr("Unavailable", "Execute"), resp |-> NilResponse]}

NextInputs ==
  \/ GetInventoryDataStage
  \/ NewInputTreeStage(InputsTreeFailures, AllWorkDirs, AllInputAnswers, UploadKinds)
  \/ SetupNewActionStage(CommandSetupFailures)
  \/ CheckCacheStage
  \/ MissingBlobsStage(MissingAnswers)
  \/ UploadBlobsStage
  \/ ExecuteActionStage(InputsExecuteAnswers)

SpecInputs == InitInputs /\ [][NextInputs]_vars

-----------------------------------------------------------------------------
(* SpecMissing: requests with two and with about missingInputLimit inputs, *)
(* of which the file service or the CAS lacks some or all.                 *)

\* n inputs that all name one file, each with a content of its own
SameInputs(n) == [i \in 1..n |-> Input("0", FALSE, ToString(i))]

\* n inputs, each with a content of its own: the first names one file,
\* the others another one
ManyInputs(n) ==
  [i \in 1..n |-> Input(IF i = 1 THEN "1" ELSE "2", FALSE, ToString(i))]

\* the numbers of inputs of one name: below, at and above the limit
MissingSizes == (missingInputLimit - 1)..(missingInputLimit + MaxExtra)

\* the numbers of inputs up to the limit
KeptSizes == (missingInputLimit - 1)..missingInputLimit

\* the number of inputs of two names: the least that thinOutMissing cuts
ThinnedSize == missingInputLimit + 1

MissingRequest(inputs) ==
  [Request("STORE_ONLY", <<>>, TRUE) EXCEPT !.Input = inputs]

\* the answers for n inputs: none is found, all but the first are and,
\* for up to missingInputLimit inputs, all are found, or none is and the
\* file service is unavailable for the first
MissingPatterns ==
  UNION {{[i \in 1..n |-> "not found"],
          [i \in 1..n |-> IF i = 1 THEN "not found" ELSE "ok"]} : n \in MissingSizes}
  \cup UNION {{[i \in 1..n |-> "ok"],
               [i \in 1..n |-> IF i = 1 THEN "unavailable" ELSE "not found"]} :
                n \in KeptSizes}

\* inputs that name two files several times, more of them than sort.Sort
\* sorts by insertion
TiedInputs ==
  <<Input("a.c", FALSE, "k1"), Input("b.h", FALSE, "k2"), Input("b.h", FALSE, "k2"),
    Input("b.h", FALSE, "k2"), Input("b.h", FALSE, "k2"), Input("b.h", FALSE, "k2"),
    Input("a.c", FALSE, "k1")>>

\* the answers for them: all are found, or none is
TiedPatterns ==
  {[i \in 1..Len(TiedInputs) |-> "ok"],
   [i \in 1..Len(TiedInputs) |-> IF i % 2 = 1 THEN "not found" ELSE "unavailable"]}

\* the blobs the CAS lacks: none, or the blob of the wrapper and those of
\* n inputs that name one file
ManyMissingAnswers ==
  {[err |-> Nil, blobs |-> <<>>]}
  \cup {[err |-> Nil,
         blobs |-> [i \in 1..(n + 1) |-> IF i = 1 THEN "" ELSE "0"]] :
          n \in KeptSizes}

MissingInventories ==
  {Inventory(TRUE, Config("POSIX", FALSE, "clang", LinuxProps, TRUE), PosixFiles)}

\* the request of inputs of two names as the stages up to missingBlobs
\* leave it when the file service has every input, the tasks of the
\* inputs call it in the order they were started, and the CAS lacks the
\* blobs of all inputs.  The other orders of these calls give the same
\* request with another list of calls, which uploadBlobs does not read
AssembledMissing ==
  LET greq == MissingRequest(ManyInputs(ThinnedSize))
      inv == CHOOSE i \in MissingInventories : TRUE
      cfg == Adapter(<<>>, 0, 0)
      s == [fail |-> "none", rootDir |-> "/work", needChroot |-> FALSE,
            d1 |-> FALSE, d2 |-> FALSE, wd |-> <<>>,
            inputs |-> [i \in 1..ThinnedSize |-> "ok"],
            shuffled |-> <<>>, sorted |-> <<>>,
            digestOrder |-> [k \in 1..ThinnedSize |-> k],
            upload |-> UploadAnswer(<<>>, <<>>, <<>>)]
      lacked == [err |-> Nil,
                 blobs |-> [i \in 1..ThinnedSize |-> greq.Input[i].Filename] \o <<>>]
      Lacked(req, cs, looked, missing) ==
        [gomaReq |-> greq, inventory |-> inv, f |-> cfg, r |-> missing.r,
         cached |-> looked.res.cached, blobs |-> missing.blobs,
         eresp |-> ResponseOfCache(looked.res.result),
         ret |-> Returned("missingBlobs", FALSE, missing.err),
         calls |-> cs \o looked.res.calls \o missing.calls,
         ran |-> <<"getInventoryData", "newInputTree", "setupNewAction",
                   "checkCache", "missingBlobs">>]
      Looked(cs, looked) == Lacked(looked.r, cs, looked, missingBlobs(looked.r, lacked))
      Set(cs, action) ==
        Looked(cs \o action.calls, checkCache(action.r, greq, "ActionResult"))
      Built(cs, tree) == Set(cs \o tree.calls, setupNewAction(tree.r, "none"))
      Inventoried(res) == Built(res.calls, newInputTree(res.r, greq, cfg, s))
  IN Inventoried(getInventoryData(NewRequest, greq, inv))

\* a request before its first stage or, the request of inputs of two
\* names, also before uploadBlobs
InitMissing ==
  \/ InitWith({MissingRequest(SameInputs(n)) : n \in MissingSizes}
                \cup {MissingRequest(ManyInputs(ThinnedSize))}
                \cup {InputsRequest(inputs) : inputs \in InputLists}
                \cup {InputsRequest(TiedInputs)},
              MissingInventories,
              {Adapter(<<>>, 0, 0)})
  \/ LET At(a) ==
           /\ pc = "uploadBlobs"
           /\ gomaReq = a.gomaReq
           /\ inventory = a.inventory
           /\ f = a.f
           /\ r = a.r
           /\ cached = a.cached
           /\ blobs = a.blobs
           /\ eresp = a.eresp
           /\ ret = a.ret
           /\ calls = a.calls
           /\ ran = a.ran
           /\ eg = NoTasks
           /\ wg = NoTasks
     IN At(AssembledMissing)

MissingTreeFailures == {"none"}

\* the answers for the inputs of the large and of the small requests
MissingInputAnswers == MissingPatterns \cup TiedPatterns \cup AllInputAnswers

\* the answers of cas.Missing for the large and for the small requests
MissingCasAnswers == ManyMissingAnswers \cup MissingAnswers

NextMissing ==
  \/ GetInventoryDataStage
  \/ NewInputTreeStage(MissingTreeFailures, RootOnly, MissingInputAnswers, UploadOK)
  \/ SetupNewActionStage(CommandSetupFailures)
  \/ CheckCacheStage
  \/ MissingBlobsStage(MissingCasAnswers)
  \/ UploadBlobsStage
  \/ ExecuteActionStage(InputsExecuteAnswers)

SpecMissing == InitMissing /\ [][NextMissing]_vars

-----------------------------------------------------------------------------
(* SpecNewResp: newResp applied to every ExecuteResponse and either value  *)
(* of the cached flag, for a request that was assembled without an error   *)
(* and for one that recorded an error of Execute.                          *)

\* a request as getInventoryData, newInputTree and setupNewAction leave it
AssembledRequest ==
  LET greq == Request("LOOKUP_AND_STORE", <<>>, TRUE)
      cfg == Adapter(<<>>, 0, 0)
      inv == Inventory(TRUE, Config("POSIX", FALSE, "clang", LinuxProps, FALSE), PosixFiles)
      s == [fail |-> "none", rootDir |-> "/work", needChroot |-> FALSE,
            d1 |-> FALSE, d2 |-> FALSE, wd |-> <<>>, inputs |-> <<"ok", "ok">>,
            shuffled |-> <<>>, sorted |-> <<>>, digestOrder |-> <<1, 2>>,
            upload |-> UploadAnswer(<<"ok">>, <<1>>, <<1>>)]
      r1 == getInventoryData(NewRequest, greq, inv).r
      r2 == newInputTree(r1, greq, cfg, s).r
  IN setupNewAction(r2, "none").r

\* the errors a request can hold when newResp is called
EntryErrors == {Nil, StatusErr("Unavailable", "Execute")}

InitNewResp ==
  /\ pc = "newResp"
  /\ gomaReq = Request("LOOKUP_AND_STORE", <<>>, TRUE)
  /\ inventory = Inventory(TRUE, Config("POSIX", FALSE, "clang", LinuxProps, FALSE), PosixFiles)
  /\ f = Adapter(<<>>, 0, 0)
  /\ \E e \in EntryErrors :
       r = [AssembledRequest EXCEPT !.err = e]
  /\ cached \in BOOLEAN
  /\ blobs = <<>>
  /\ eresp \in {a.resp : a \in ExecuteAnswers}
  /\ ret = Returned("none", FALSE, Nil)
  /\ calls = <<>>
  /\ ran = <<>>
  /\ eg = NoTasks
  /\ wg = NoTasks

NewRespOutputLists == OutputLists(MaxOutputs)

\* the outcomes of the size cap
NewRespSizes == {"fits", "reduced", "reduceRespSize failed"}

NextNewResp ==
  NewRespStage(FetchAnswers, NewRespOutputLists, NewRespSizes)

SpecNewResp == InitNewResp /\ [][NextNewResp]_vars

-----------------------------------------------------------------------------
(* uploadInputFiles, step by step: the loop that cuts the list of embedded *)
(* inputs into batches and starts a task for each, the tasks, which run    *)
(* in any order while the loop goes on, and eg.Wait.                       *)

\* an embedded input whose content is size bytes long
EmbeddedInput(i, size) ==
  [Filename |-> ToString(i), Embedded |-> TRUE, HashKey |-> ToString(i), size |-> size]

\* the task of the batch inputs[begin:end]: about to call gi.upload, then
\* in the call, then done with the answer it got and the error it returned
BatchTask(begin, end) ==
  [begin |-> begin, end |-> end, pc |-> "upload", answer |-> "", err |-> Nil]

\* uploadInputFiles called with a list of inputs: its locals, the context
\* and the error of the errgroup, the tasks started; writer tells which
\* task wrote a slot of hashKeys, failed the tasks that returned an error
\* in the order they did, called the tasks that have called gi.upload in
\* the order they did, seen the keys the summary counted
Uploading(inputs) ==
  [phase |-> "loop", inputs |-> inputs, i |-> 0, count |-> 0, size |-> 0,
   beginOffset |-> 0,
   hashKeys |-> [j \in 1..Len(inputs) |-> ""] \o <<>>,
   writer |-> [j \in 1..Len(inputs) |-> 0] \o <<>>,
   tasks |-> <<>>, err |-> Nil, cancelled |-> FALSE, failed |-> <<>>,
   called |-> <<>>, ret |-> Nil, seen |-> 0]

\* one turn of the loop over the inputs
UploadLoop ==
  /\ eg.phase = "loop"
  /\ eg.i < Len(eg.inputs)
  /\ LET i == eg.i
         count == eg.count + 1
         size == eg.size + eg.inputs[i + 1].size
     IN eg' = IF batchOpen(count, size, i, Len(eg.inputs))
              THEN [eg EXCEPT !.i = i + 1, !.count = count, !.size = size]
              ELSE [eg EXCEPT !.i = i + 1, !.count = 0, !.size = 0,
                              !.beginOffset = nextOffset(i),
                              !.tasks = Append(@, BatchTask(eg.beginOffset, i + 1))]
  /\ UNCHANGED <<stageVars, wg>>

\* what gi.upload answers to a batch: the inputs' hash keys, an error, a
\* list that is one key short, a list whose first key is another one, a
\* list of more than one key whose last key is another one, or, once the
\* context is cancelled, that it is
TaskAnswers == {"ok", "error", "short", "other key", "other last key", "canceled"}

\* a task gathers the contents of its batch and calls gi.upload
UploadCall ==
  /\ eg.phase # "none"
  /\ \E k \in 1..Len(eg.tasks) :
       /\ eg.tasks[k].pc = "upload"
       /\ eg' = [eg EXCEPT !.tasks[k].pc = "called", !.called = Append(@, k)]
  /\ UNCHANGED <<stageVars, wg>>

\* the calls of gi.upload in the order they were issued, each with the
\* answer it got
uploadCalls(e) ==
  [j \in 1..Len(e.called) |->
     Call("FileService.upload", e.tasks[e.called[j]].answer)] \o <<>>

\* the errors of a task, with what their messages tell
TaskErr(msg, detail) == [code |-> "Unknown", msg |-> msg, detail |-> detail]

\* the error a task returns for an answer to its batch
taskError(answer, inputs) ==
  LET n == Len(inputs) IN
  CASE answer \in {"error", "canceled"} ->
         TaskErr("setup input error", <<inputs[1].Filename, answer>>)
    [] answer = "short" ->
         TaskErr("invalid number of hash keys", <<ToString(n - 1), ToString(n)>>)
    [] answer = "other key" ->
         TaskErr("hashkey missmatch", <<inputs[1].Filename, inputs[1].HashKey, "k0">>)
    [] answer = "other last key" ->
         TaskErr("hashkey missmatch", <<inputs[n].Filename, inputs[n].HashKey, "k0">>)
    [] OTHER -> Nil

\* the number of hash keys a task writes to its results before it returns
accepted(answer, n) ==
  CASE answer = "ok" -> n
    [] answer = "other last key" -> n - 1
    [] OTHER -> 0

\* gi.upload answers the call of a task, which checks the answer, writes
\* the keys it accepts into its results and returns to the errgroup, which
\* cancels the context on an error.  Other tasks may have called and
\* returned since the call was issued, and the answer is the error of the
\* context only if the context is cancelled by then
UploadTask(answers) ==
  /\ eg.phase # "none"
  /\ \E k \in 1..Len(eg.tasks), a \in answers :
       /\ eg.tasks[k].pc = "called"
       /\ (a = "canceled") => eg.cancelled
       /\ (a = "other last key") => eg.tasks[k].end > eg.tasks[k].begin + 1
       /\ LET t == eg.tasks[k]
              slice == SubSeq(eg.inputs, t.begin + 1, t.end)
              e == taskError(a, slice)
              written == (t.begin + 1)..(t.begin + accepted(a, Len(slice)))
          IN eg' = [eg EXCEPT
                      !.tasks[k].pc = "done",
                      !.tasks[k].answer = a,
                      !.tasks[k].err = e,
                      !.hashKeys = [j \in 1..Len(eg.hashKeys) |->
                                      IF j \in written THEN eg.inputs[j].HashKey
                                      ELSE eg.hashKeys[j]] \o <<>>,
                      !.writer = [j \in 1..Len(eg.writer) |->
                                    IF j \in written THEN k ELSE eg.writer[j]] \o <<>>,
                      !.err = firstError(@, e),
                      !.cancelled = @ \/ e # Nil,
                      !.failed = IF e # Nil THEN Append(@, k) ELSE @]
  /\ UNCHANGED <<stageVars, wg>>

\* a mutant of waited: eg.Wait returns at once
waitedNever(tasks) == TRUE

\* eg.Wait blocks until every task has returned
waited(tasks) == \A k \in 1..Len(tasks) : tasks[k].pc = "done"

\* the keys the summary counts as uploaded
Successful(hashKeys) == Cardinality({j \in 1..Len(hashKeys) : hashKeys[j] # ""})

\* the loop is over: eg.Wait, then the deferred summary reads hashKeys and
\* uploadInputFiles returns the error of the errgroup
UploadWait ==
  /\ eg.phase = "loop"
  /\ eg.i = Len(eg.inputs)
  /\ waited(eg.tasks)
  /\ eg' = [eg EXCEPT !.phase = "returned", !.cancelled = TRUE,
                      !.ret = eg.err, !.seen = Successful(eg.hashKeys)]
  /\ UNCHANGED <<stageVars, wg>>

\* the content sizes of the short lists
UploadSizes == {0, sizeLimit - 1, sizeLimit}

\* the lengths of the long lists
LongLengths == (batchLimit - 1)..(batchLimit + MaxExtra)

\* the lists uploadInputFiles is called with: up to MaxSized inputs of
\* every size, about batchLimit empty inputs, and more than batchLimit
\* inputs that reach sizeLimit before there are batchLimit of them
UploadLists ==
  {[i \in 1..Len(sz) |-> EmbeddedInput(i, sz[i])] :
     sz \in SeqsUpTo(UploadSizes, MaxSized)}
  \cup {[i \in 1..n |-> EmbeddedInput(i, 0)] : n \in LongLengths}
  \cup {[i \in 1..(batchLimit + MaxExtra) |->
           EmbeddedInput(i, 2 * (sizeLimit \div batchLimit))]}

InitUpload ==
  /\ InitStages({InputsRequest(Inputs)}, MissingInventories, {Adapter(<<>>, 0, 0)})
  /\ eg \in {Uploading(inputs) : inputs \in UploadLists}
  /\ wg = NoTasks

NextUpload ==
  \/ UploadLoop
  \/ UploadCall
  \/ UploadTask(TaskAnswers)
  \/ UploadWait

SpecUpload == InitUpload /\ [][NextUpload]_vars

-----------------------------------------------------------------------------
(* inputFiles, step by step: newInputTree up to its call, the task of      *)
(* each input, which run in any order, and wg.Wait with the rest of        *)
(* newInputTree.                                                           *)

\* the zero inputFileResult
NoResult == FileResult("", "", <<>>, FALSE, Nil)

\* inputFiles called by newInputTree: before is the request newInputTree
\* was called with, req the request it has made of it, s the
\* collaborators' answers; every task is about to call rootRel, then
\* gi.toDigest, then to take its answer, then it is done; writer tells
\* which task wrote a result, ended the tasks in the order they ended,
\* asked the calls to the file service in the order they were issued
Digesting(before, greq, s, inputs) ==
  [phase |-> "tasks", before |-> before, req |-> inputTreeRooted(before, greq, s),
   s |-> s, inputs |-> inputs,
   results |-> [i \in 1..Len(inputs) |-> NoResult] \o <<>>,
   writer |-> [i \in 1..Len(inputs) |-> 0] \o <<>>,
   tasks |-> [i \in 1..Len(inputs) |-> [pc |-> "rootRel"]] \o <<>>,
   ended |-> <<>>, asked |-> <<>>]

\* the answers of the collaborators that are not taken step by step are
\* drawn when newInputTree is called; those of gi.upload are the tasks'
NoUploadAnswer == UploadAnswer(<<>>, <<>>, <<>>)

\* newInputTree up to the call of inputFiles, which starts a task for
\* every input, or to the end when it does not get there
InputFilesStart(fails, wds, inputAnswers) ==
  /\ pc = "newInputTree"
  /\ \E fail \in fails, rootDir \in RootDirs(r.filepath),
        needChroot \in (IF r.allowChroot THEN BOOLEAN ELSE {FALSE}),
        d1 \in Draws(f.HardeningRatio), d2 \in Draws(f.NsjailRatio),
        wd \in wds \cap WorkDirs(r.filepath) :
       \E answers \in {a \in inputAnswers : Len(a) = Len(reqInputs(r, gomaReq))} :
         \E shuffled \in ShuffledFor(NamesOf(MissingPairs(reqInputs(r, gomaReq), answers))) :
         \E sorted \in SortedFor(gomaReq.Input,
                                 MissingPairs(reqInputs(r, gomaReq), answers), shuffled) :
           LET s == [fail |-> fail, rootDir |-> rootDir, needChroot |-> needChroot,
                     d1 |-> d1, d2 |-> d2, wd |-> wd, inputs |-> answers,
                     shuffled |-> shuffled, sorted |-> sorted,
                     digestOrder |-> <<>>, upload |-> NoUploadAnswer]
               res == inputTreeRefusal(r, s)
           IN IF inputTreeRefused(r, s)
              THEN /\ Step("newInputTree", res.r, res.resp, res.err, res.calls, FALSE)
                   /\ UNCHANGED wg
              ELSE /\ wg' = Digesting(r, gomaReq, s, reqInputs(r, gomaReq))
                   /\ pc' = "inputFiles"
                   /\ UNCHANGED <<r, ret, calls, ran>>
  /\ UNCHANGED <<gomaReq, inventory, f, cached, blobs, eresp, eg>>

\* the task of an input calls rootRel: outside the root it ends and leaves
\* its result as it is, on an error it ends with the error in its result
InputRootRel ==
  /\ pc = "inputFiles"
  /\ \E i \in 1..Len(wg.tasks) :
       /\ wg.tasks[i].pc = "rootRel"
       /\ LET answer == wg.s.inputs[i] IN
          wg' = CASE answer = "errOutOfRoot" ->
                       [wg EXCEPT !.tasks[i].pc = "done", !.ended = Append(@, i)]
                  [] answer = "rootRel error" ->
                       [wg EXCEPT !.tasks[i].pc = "done", !.ended = Append(@, i),
                                  !.results[i].err = InputErr(wg.inputs[i].Filename),
                                  !.writer[i] = i]
                  [] OTHER -> [wg EXCEPT !.tasks[i].pc = "toDigest"]
  /\ UNCHANGED <<stageVars, eg>>

\* the task of an input calls gi.toDigest
InputToDigest ==
  /\ pc = "inputFiles"
  /\ \E i \in 1..Len(wg.tasks) :
       /\ wg.tasks[i].pc = "toDigest"
       /\ wg' = [wg EXCEPT
                   !.tasks[i].pc = "answered",
                   !.asked = Append(@, Call("FileService.toDigest",
                                            wg.inputs[i].Filename))]
  /\ UNCHANGED <<stageVars, eg>>

\* gi.toDigest has returned to the task of an input, which writes its
\* result and ends: with the input as missing when the call failed, with
\* its entry otherwise
InputResult ==
  /\ pc = "inputFiles"
  /\ \E i \in 1..Len(wg.tasks) :
       /\ wg.tasks[i].pc = "answered"
       /\ LET answer == wg.s.inputs[i]
              input == wg.inputs[i]
              fname == JoinRel(wg.req.filepath, wg.s.wd, <<input.Filename>>)
          IN wg' = [wg EXCEPT
                      !.tasks[i].pc = "done",
                      !.ended = Append(@, i),
                      !.writer[i] = i,
                      !.results[i] =
                         IF answer = "ok"
                         THEN [@ EXCEPT !.file = fname, !.needUpload = input.Embedded]
                         ELSE [@ EXCEPT !.missingInput = input.Filename,
                                        !.missingReason = ReasonOf(answer)]]
  /\ UNCHANGED <<stageVars, eg>>

\* wg.Wait returns when every task has ended; inputFiles returns the
\* results and newInputTree goes on with them, to its end or to the call
\* of uploadInputFiles
InputFilesJoin ==
  /\ pc = "inputFiles"
  /\ waited(wg.tasks)
  /\ LET GoOn(res) ==
           IF treeBuilt(res)
           THEN /\ r' = res.r
                /\ eg' = Uploading(Uploads(wg.req.reqInputs, wg.results))
                /\ pc' = "uploadInputFiles"
                /\ UNCHANGED <<ret, calls, ran>>
           ELSE /\ Step("newInputTree", res.r, res.resp, res.err, res.calls, FALSE)
                /\ UNCHANGED eg
     IN GoOn(inputTreeBuilt(wg.req, gomaReq, f, wg.s, wg.results, wg.asked))
  /\ wg' = [wg EXCEPT !.phase = "returned"]
  /\ UNCHANGED <<gomaReq, inventory, f, cached, blobs, eresp>>

\* the error of uploadInputFiles as newInputTree logs it
uploadErrOf(e) == IF e = Nil THEN Nil ELSE StatusErr(e.code, e.msg)

\* uploadInputFiles has returned to newInputTree, which logs its error and
\* returns
InputTreeReturn ==
  /\ pc = "uploadInputFiles"
  /\ eg.phase = "returned"
  /\ LET res == inputTreeUploaded(StageResult(r, FALSE, Nil, wg.asked), eg.inputs,
                                  [err |-> uploadErrOf(eg.ret), calls |-> uploadCalls(eg)])
     IN Step("newInputTree", res.r, res.resp, res.err, res.calls, FALSE)
  /\ eg' = NoTasks
  /\ UNCHANGED <<gomaReq, inventory, f, cached, blobs, eresp, wg>>

\* the inputs of the requests whose tasks are followed: the first with
\* embedded content, the others given by their hash keys
TaskNames == <<"a.c", "b.h", "c.h", "d.h">>

TaskLists ==
  {[i \in 1..n |-> Input(TaskNames[i], i = 1, ToString(i))] : n \in 1..MaxTasks}
  \cup {TwoBatches}

\* every answer for each input
TaskInputAnswers == SeqsUpTo(InputAnswers, MaxTasks)

InitTasks ==
  InitWith({InputsRequest(inputs) : inputs \in TaskLists},
           MissingInventories,
           {Adapter(<<>>, 0, 0)})

NextTasks ==
  \/ GetInventoryDataStage
  \/ InputFilesStart(MissingTreeFailures, RootOnly, TaskInputAnswers)
  \/ InputRootRel
  \/ InputToDigest
  \/ InputResult
  \/ InputFilesJoin
  \/ UploadLoop
  \/ UploadCall
  \/ UploadTask(TaskAnswers)
  \/ UploadWait
  \/ InputTreeReturn

SpecTasks == InitTasks /\ [][NextTasks]_vars

-----------------------------------------------------------------------------
(* SpecDedup: the inputs of a request whose filenames differ by case, or   *)
(* by being relative or absolute, under every path algebra.                *)

\* filenames of two files, a.c and b.h of the working directory
DedupNames == {"a.c", "A.C", "A.c", "C:\\w\\a.c", "b.h", "c:\\W\\b.h"}

DedupLists ==
  {[i \in 1..Len(names) |-> Input(names[i], FALSE, ToString(i))] :
     names \in SeqsUpTo(DedupNames, MaxDedup)}

\* the file service has every input
Found == {"ok"}

DedupAnswers == SeqsUpTo(Found, MaxDedup)

InitDedup ==
  InitWith({InputsRequest(inputs) : inputs \in DedupLists},
           Inventories(LinuxProps),
           {Adapter(<<>>, 0, 0)})

NextDedup ==
  \/ GetInventoryDataStage
  \/ NewInputTreeStage(MissingTreeFailures, RootOnly, DedupAnswers, UploadOK)

SpecDedup == InitDedup /\ [][NextDedup]_vars

-----------------------------------------------------------------------------
(* SpecArgs: the command line buildArgs makes, for every argument list     *)
(* with and without a target and every compiler configuration with and     *)
(* without clang_need_target.                                              *)

\* the arguments of the client: a flag, the two spellings of a target,
\* two arguments that only look like one, and flags and a file with
\* Windows paths
ArgUniverse ==
  {<<"-c">>, <<"-target">>, <<"--target=", "arm">>, <<"--target">>,
   <<"-target=", "arm">>, <<"-I">>, <<"-I", "C:", "\\", "inc">>,
   <<"/Fo", "C:", "\\", "out", "\\", "a.obj">>, <<"C:", "\\", "src", "\\", "a.c">>}

Targets == {<<>>, <<"x86_64">>}

ArgEnvs ==
  {<<>>, <<<<"INCLUDE", "=", "C:", "\\", "inc", ";", "D:", "\\", "sdk">>>>}

ArgsRequest(tail, env, target) ==
  [Request("LOOKUP_AND_STORE", <<>>, TRUE) EXCEPT
     !.Arg = <<<<"clang">>>> \o tail, !.Env = env, !.Target = target]

NeedTarget(config, need) == [config EXCEPT !.ClangNeedTarget = need]

ArgsInventories ==
  {Inventory(TRUE, NeedTarget(Config("POSIX", FALSE, "clang", LinuxProps, FALSE), need),
             PosixFiles) : need \in BOOLEAN}
  \cup {Inventory(TRUE, NeedTarget(Config("WINDOWS", TRUE, "clang-cl", LinuxProps, FALSE),
                                  need), WinFiles) : need \in BOOLEAN}

InitArgs ==
  InitWith(
    {ArgsRequest(tail, env, target) :
       tail \in SeqsUpTo(ArgUniverse, MaxArgs), env \in ArgEnvs, target \in Targets},
    ArgsInventories,
    {Adapter(<<>>, 0, 0)})

ArgsTreeFailures == {"none"}

NextArgs ==
  \/ GetInventoryDataStage
  \/ NewInputTreeStage(ArgsTreeFailures, RootOnly, AllFound, UploadOK)

SpecArgs == InitArgs /\ [][NextArgs]_vars

-----------------------------------------------------------------------------
(* SpecSymlinks: the command files of the toolchain on their way into the  *)
(* tree, for every list of files and symlinks and every symlink strategy   *)
(* of the backend.                                                         *)

\* the command files after the compiler: links with an absolute target in
\* and outside the root, a link with a relative name, a link with a
\* relative target, a link outside the root and a file
CmdFileUniverse ==
  {FileSpec("/work/bin/cc", "", "/work/bin/gcc"),
   FileSpec("/work/bin/ld", "", "/usr/bin/ld"),
   FileSpec("bin/cxx", "", "/work/bin/gcc"),
   FileSpec("/work/bin/as", "", "gas"),
   FileSpec("/usr/bin/ar", "", "/usr/bin/gar"),
   FileSpec("/work/bin/real", "h3", "")}

ToolchainSpec(path, symlink) == [Path |-> path, SymlinkPath |-> symlink]

\* the toolchain specs of the client: a file and a symlink
ToolchainSpecs ==
  <<ToolchainSpec("/work/bin/real", ""), ToolchainSpec("/work/bin/cc", "/work/bin/gcc")>>

SymlinksRequest(included) ==
  [Request("LOOKUP_AND_STORE", <<>>, TRUE) EXCEPT
     !.ToolchainIncluded = included, !.ToolchainSpecs = ToolchainSpecs]

SymlinkStrategies == {"UNKNOWN", "DISALLOWED", "ALLOWED"}

InitSymlinks ==
  InitWith(
    {SymlinksRequest(included) : included \in BOOLEAN},
    {Inventory(TRUE, Config("POSIX", FALSE, "clang", LinuxProps, FALSE),
               PosixFiles \o files) : files \in SeqsUpTo(CmdFileUniverse, MaxCmdFiles)},
    {[Adapter(<<>>, 0, 0) EXCEPT !.SymlinkAbsolutePathStrategy = strategy] :
       strategy \in SymlinkStrategies})

SymlinksTreeFailures == {"none"}

NextSymlinks ==
  \/ GetInventoryDataStage
  \/ NewInputTreeStage(SymlinksTreeFailures, PosixWorkDirs, AllFound, UploadOK)

SpecSymlinks == InitSymlinks /\ [][NextSymlinks]_vars

-----------------------------------------------------------------------------
(* SpecTree: the entries set in the tree, for inputs, command files and    *)
(* directories with the name of the wrapper and with other names.          *)

TreeInputNames == {"run.sh", "a.c"}

TreeInputs ==
  {[i \in 1..Len(names) |-> Input(names[i], FALSE, "k1")] :
     names \in SeqsUpTo(TreeInputNames, MaxTree)}

TreeDirs == {<<>>, <<<<"run.sh">>>>, <<<<"inc">>>>}

TreeCmdFiles == {<<>>, <<FileSpec("run.sh", "h4", "")>>}

\* the outputs of a request: the command line, the output files and
\* directories the client expects and its other system paths.  The root of
\* the model's POSIX clients is /work
TreeOutputs ==
  {[Arg |-> Args, Files |-> <<>>, Dirs |-> <<>>, Include |-> <<>>, Framework |-> <<>>],
   [Arg |-> Args \o <<<<"-o">>, <<"out", "/", "a.o">>, <<"-MF">>, <<"a.d">>,
                      <<"-d">>, <<"classes">>>>,
    Files |-> <<>>, Dirs |-> <<>>, Include |-> <<<<"inc">>>>,
    Framework |-> <<<<"/", "tmp">>>>],
   [Arg |-> Args,
    Files |-> <<<<"gen", "/", "a.o">>, <<"/", "work", "/", "a.o">>>>,
    Dirs |-> <<<<"out">>, <<"classes">>>>, Include |-> <<>>,
    Framework |-> <<<<"gen">>>>],
   [Arg |-> Args, Files |-> <<<<"/", "tmp", "/", "a.o">>>>, Dirs |-> <<>>,
    Include |-> <<>>, Framework |-> <<>>]}

TreeRequest(inputs, dirs, outs) ==
  [Request("LOOKUP_AND_STORE", <<>>, TRUE) EXCEPT
     !.Input = inputs, !.CxxSystemIncludePath = dirs, !.Arg = outs.Arg,
     !.SystemIncludePath = outs.Include, !.SystemFrameworkPath = outs.Framework,
     !.ExpectedOutputFiles = outs.Files, !.ExpectedOutputDirs = outs.Dirs]

TreeAnswers == SeqsUpTo(Found, MaxTree)

TreeInventories ==
  {Inventory(TRUE, Config("POSIX", FALSE, "clang", LinuxProps, nsjail),
             PosixFiles \o files) : files \in TreeCmdFiles, nsjail \in BOOLEAN}
  \cup {Inventory(TRUE, Config("POSIX", FALSE, "javac", LinuxProps, FALSE), PosixFiles)}

InitTree ==
  InitWith(
    {TreeRequest(inputs, dirs, outs) :
       inputs \in TreeInputs, dirs \in TreeDirs, outs \in TreeOutputs},
    TreeInventories,
    {Adapter(<<>>, 0, 0)})

TreeFailures == {"none", "treeBuild"}

NextTree ==
  \/ GetInventoryDataStage
  \/ NewInputTreeStage(TreeFailures, PosixWorkDirs, TreeAnswers, UploadOK)
  \/ SetupNewActionStage(OutputFailures)

SpecTree == InitTree /\ [][NextTree]_vars

-----------------------------------------------------------------------------
(* SpecEnv: the Command's environment for client entries with and without  *)
(* a "=", under every strategy.                                            *)

\* the entries of the client: one without a "=", one with an empty value
\* and two with a value
BareUniverse ==
  {<<"PATH">>, <<"PATH", "=">>, <<"PATH", "=", "/bin">>, <<"PWD", "=", "/work">>}

EnvInventories ==
  {Inventory(TRUE, Config("POSIX", FALSE, "clang", LinuxProps, TRUE), PosixFiles),
   Inventory(TRUE, Config("WINDOWS", FALSE, "clang-cl", <<>>, FALSE), WinFiles),
   Inventory(TRUE, Config("WINDOWS", TRUE, "clang-cl", LinuxProps, FALSE), WinFiles)}

InitEnv ==
  InitWith(
    {CommandRequest(env, rel) :
       env \in SeqsUpTo(BareUniverse, MaxEnvs), rel \in BOOLEAN},
    EnvInventories,
    {Adapter(<<>>, 0, 0)})

NextEnv ==
  \/ GetInventoryDataStage
  \/ NewInputTreeStage(CommandTreeFailures, RootOnly, OneFound, UploadOK)
  \/ SetupNewActionStage(CommandSetupFailures)

SpecEnv == InitEnv /\ [][NextEnv]_vars

-----------------------------------------------------------------------------
(* Properties of the pipeline.                                             *)

HasCall(op) == \E i \in 1..Len(calls) : calls[i][1] = op

\* GetActionResult was asked and gave an answer of the set S
CacheAnswered(S) ==
  \E i \in 1..Len(calls) : calls[i][1] = "GetActionResult" /\ calls[i][2] \in S

\* checkCache has just returned after GetActionResult gave an answer of S
CacheJustAnswered(S) ==
  /\ Len(calls) > 0
  /\ calls[Len(calls)][1] = "GetActionResult"
  /\ calls[Len(calls)][2] \in S
  /\ ret.by = "checkCache"

HasRun(stage) == \E i \in 1..Len(ran) : ran[i] = stage

\* the codes request.Err hands on as they are
PassedCodes == {"Canceled", "DeadlineExceeded", "Aborted", "Unauthenticated"}

\* out is the error request.Err makes of the recorded error e
MappedError(e, out) ==
  /\ e = Nil => out = Nil
  /\ (e # Nil /\ e.code \in PassedCodes) => out = e
  /\ (e # Nil /\ e.code \notin PassedCodes) => (out.code = "Internal" /\ out # e)

\* C1: once an error is recorded in the request, no later stage issues a
\* call to a collaborator or changes the request (the recorded error
\* included), and the error newResp returns is the recorded one as mapped
\* by Err.
C1_RecordedErrorStops ==
  /\ [][r.err # Nil => (r' = r /\ calls' = calls)]_vars
  /\ [](pc = "done" /\ ret.by = "newResp" /\ r.err # Nil =>
          MappedError(r.err, ret.err))

\* an error recorded by newInputTree went through every later stage up to
\* newResp, which returned it wrapped as Internal, and no backend was called
C1_Witness ==
  /\ pc = "done"
  /\ r.err = InputErr("b.h")
  /\ ran = <<"getInventoryData", "newInputTree", "setupNewAction", "checkCache", "newResp">>
  /\ ret = Returned("newResp", FALSE, StatusErr("Internal", "exec error"))
  /\ ~HasCall("GetActionResult")

\* C2: after a hit of the action cache no FindMissingBlobs, no CAS upload
\* and no Execute is issued, and an Execute call is always preceded by a
\* FindMissingBlobs and then a CAS upload of a request whose lookup did not
\* hit.
C2_HitSkipsExecution ==
  /\ CacheAnswered({"ActionResult"}) =>
       ~(HasCall("FindMissingBlobs") \/ HasCall("CAS.Upload") \/ HasCall("Execute"))
  /\ \A i \in 1..Len(calls) :
       calls[i][1] = "Execute" =>
         /\ ~cached
         /\ \E j \in 1..(i - 1), k \in 1..(i - 1) :
              /\ j < k
              /\ calls[j][1] = "FindMissingBlobs"
              /\ calls[k][1] = "CAS.Upload"

\* a request whose lookup hit has been translated by newResp
C2_Witness ==
  /\ pc = "done"
  /\ CacheAnswered({"ActionResult"})
  /\ ret = Returned("newResp", TRUE, Nil)
  /\ r.gomaResp.ExitStatusSet

\* newResp has classified the result of a hit of the action-cache lookup
TranslatedHit ==
  /\ pc = "done"
  /\ ret.by = "newResp"
  /\ CacheAnswered({"ActionResult"})
  /\ cached
  /\ r.gomaResp.CacheHit # "unset"

\* C3 as stated: a result obtained from the action-cache lookup is reported
\* with CacheHit = STORAGE_CACHE.
C3_HitIsStorageCache == TranslatedHit => r.gomaResp.CacheHit = "STORAGE_CACHE"

\* C3 as amended: a result obtained from the action-cache lookup is
\* reported with CacheHit = MEM_CACHE.
C3_HitIsMemCache == TranslatedHit => r.gomaResp.CacheHit = "MEM_CACHE"

C3_Witness == TranslatedHit /\ r.gomaResp.CacheHit = "MEM_CACHE" /\ ret.hasResp

\* the SkipCacheLookup every Execute call of the request carries
ExecuteCarries(flag) ==
  \A i \in 1..Len(calls) : calls[i][1] = "Execute" => calls[i][2] = flag

\* C5: under STORE_ONLY checkCache asks nothing and reports a miss and
\* Execute carries SkipCacheLookup=true; under every other policy checkCache
\* asks GetActionResult (when no error is recorded) and Execute carries
\* SkipCacheLookup=false.
C5_StoreOnlySkipsLookup ==
  /\ [][(pc = "checkCache" /\ r.err = Nil) =>
          IF gomaReq.CachePolicy = "STORE_ONLY"
          THEN calls' = calls /\ ~cached' /\ ~eresp'.Result.present
               /\ pc' = "missingBlobs"
          ELSE /\ Len(calls') = Len(calls) + 1
               /\ calls'[Len(calls')][1] = "GetActionResult"]_vars
  /\ [](IF gomaReq.CachePolicy = "STORE_ONLY"
        THEN ~HasCall("GetActionResult") /\ ExecuteCarries("SkipCacheLookup=true")
        ELSE ExecuteCarries("SkipCacheLookup=false"))

\* a STORE_ONLY request was executed without a lookup
C5_Witness ==
  /\ gomaReq.CachePolicy = "STORE_ONLY"
  /\ HasRun("checkCache")
  /\ ~HasCall("GetActionResult")
  /\ \E i \in 1..Len(calls) : calls[i] = Call("Execute", "SkipCacheLookup=true")

\* the failures of GetActionResult that are logged below error severity
MissCodes == {"NotFound", "Unavailable", "Canceled", "Aborted"}

\* C6: when GetActionResult fails with NotFound, Unavailable, Canceled or
\* Aborted, checkCache returns no result and cached=false, no error is
\* recorded, and the request goes on to the missing-blob query.
C6_TransientLookupFailureIsMiss ==
  /\ CacheJustAnswered(MissCodes) =>
       /\ r.err = Nil
       /\ ~cached
       /\ ~eresp.Result.present
       /\ pc = "missingBlobs"
  /\ CacheAnswered(MissCodes) => ~cached

\* after an Aborted lookup the request was uploaded and executed
C6_Witness ==
  /\ CacheAnswered({"Aborted"})
  /\ HasCall("FindMissingBlobs") /\ HasCall("CAS.Upload") /\ HasCall("Execute")
  /\ pc = "done"
  /\ ret = Returned("newResp", TRUE, Nil)

\* the failures of GetActionResult that are logged at error severity
HardCodes == ErrorCodes \ MissCodes

\* C7 as stated: when GetActionResult fails with another code, the failure
\* is recorded in the request's error field and no missing-blob query,
\* upload or Execute follows.
C7_HardLookupFailureIsError ==
  CacheAnswered(HardCodes) =>
    /\ r.err # Nil
    /\ ~(HasCall("FindMissingBlobs") \/ HasCall("CAS.Upload") \/ HasCall("Execute"))

\* C7 as amended: when GetActionResult fails with another code, checkCache
\* records no error and returns no result and cached=false, and the request
\* goes on to the missing-blob query as on a miss.
C7_HardLookupFailureIsMiss ==
  /\ CacheJustAnswered(HardCodes) =>
       /\ r.err = Nil
       /\ ~cached
       /\ ~eresp.Result.present
       /\ pc = "missingBlobs"
  /\ CacheAnswered(HardCodes) => ~cached

\* after a PermissionDenied lookup the request was uploaded and executed
C7_Witness ==
  /\ CacheAnswered({"PermissionDenied"})
  /\ HasCall("FindMissingBlobs") /\ HasCall("CAS.Upload") /\ HasCall("Execute")
  /\ pc = "done"
  /\ ret = Returned("newResp", TRUE, Nil)

\* the last stage returned r.Err() (newResp also returns errors of its own
\* for a docker failure and for a response it cannot shrink)
ReturnedErr ==
  /\ ret.by \in {"executeAction", "newResp"}
  /\ ret.err.msg \notin {"docker error", "failed to reduce resp size"}

\* C8: Err maps nil to nil, hands on Canceled, DeadlineExceeded, Aborted and
\* Unauthenticated errors as they are and makes a new Internal error of
\* every other one, so a stage that returns r.Err() returns one of these
\* five codes or nil.
C8_ErrMapsCodes ==
  ReturnedErr =>
    /\ MappedError(r.err, ret.err)
    /\ ret.err.code \in PassedCodes \cup {"Internal", "OK"}

\* executeAction recorded an Unauthenticated error and returned it as it is
C8_Witness ==
  /\ ret.by = "executeAction"
  /\ r.err = StatusErr("Unauthenticated", "Execute")
  /\ ret.err = r.err

-----------------------------------------------------------------------------
(* Properties of newResp.                                                  *)

\* newResp went past its check of the recorded error: the request holds no
\* error, or one newResp recorded itself
Translated == pc = "done" /\ ret.by = "newResp" /\ r.err.msg # "Execute"

\* C4: newResp sets CacheHit to STORAGE_CACHE when the ExecuteResponse
\* reports CachedResult, otherwise to MEM_CACHE when cached is true,
\* otherwise to NO_CACHE.
C4_CacheHitClasses ==
  Translated =>
    /\ eresp.CachedResult => r.gomaResp.CacheHit = "STORAGE_CACHE"
    /\ (~eresp.CachedResult /\ cached) => r.gomaResp.CacheHit = "MEM_CACHE"
    /\ (~eresp.CachedResult /\ ~cached) => r.gomaResp.CacheHit = "NO_CACHE"

\* the backend's flag won over the cached flag
C4_Witness ==
  /\ Translated
  /\ eresp.CachedResult /\ cached
  /\ r.gomaResp.CacheHit = "STORAGE_CACHE"

-----------------------------------------------------------------------------
(* Properties of the platform.                                             *)

\* the client may override these, dockerRuntime with the value runsc only
SafeOverride(pp) ==
  \/ pp.Name \in {"container-image", "InputRootAbsolutePath", "cache-silo"}
  \/ pp.Name = "dockerRuntime" /\ pp.Value = "runsc"

\* the value of the last property named n of the list, given there is one
LastValue(list, n) ==
  list[CHOOSE i \in 1..Len(list) :
         /\ list[i].Name = n
         /\ \A j \in (i + 1)..Len(list) : list[j].Name # n].Value

Names(list) == {list[i].Name : i \in 1..Len(list)}

\* list has exactly one property named n, and its value is v
HasOnce(list, n, v) ==
  /\ Cardinality({i \in 1..Len(list) : list[i].Name = n}) = 1
  /\ \E i \in 1..Len(list) : list[i] = Prop(n, v)

\* C9: with an unsafe override getInventoryData returns a BAD_REQUEST
\* response with one message per unsafe property, and no unsafe override
\* enters the platform; with safe overrides only it returns no response and
\* each override replaces the inventory's value of its name.
C9_UnsafeOverridesRejected ==
  (ret.by = "getInventoryData" /\ inventory.pickOK) =>
    LET pps == gomaReq.PlatformProperties
        unsafe == SelectSeq(pps, LAMBDA pp : ~SafeOverride(pp))
        safe == SelectSeq(pps, LAMBDA pp : SafeOverride(pp))
        inv == inventory.cmdConfig.Properties
    IN /\ IF unsafe # <<>>
          THEN /\ ret.hasResp /\ pc = "done"
               /\ r.gomaResp.Error = "BAD_REQUEST"
               /\ r.gomaResp.ErrorMessage =
                    [i \in 1..Len(unsafe) |->
                       <<"unsafe platform property", unsafe[i].Name, unsafe[i].Value>>]
          ELSE /\ ~ret.hasResp /\ pc = "newInputTree"
               /\ r.gomaResp.Error = "unset"
               /\ r.gomaResp.ErrorMessage = <<>>
       /\ Names(r.platform) = Names(inv) \cup Names(safe)
       /\ \A n \in Names(r.platform) :
            HasOnce(r.platform, n,
                    IF n \in Names(safe) THEN LastValue(safe, n) ELSE LastValue(inv, n))

\* a safe override replaced the inventory's container image although the
\* request was rejected for an unsafe one
C9_Witness ==
  /\ ret.by = "getInventoryData" /\ pc = "done"
  /\ gomaReq.PlatformProperties =
       <<Prop("container-image", "img3"), Prop("dockerRuntime", "kata")>>
  /\ inventory.cmdConfig.Properties =
       <<Prop("container-image", "img1"), Prop("OSFamily", "Linux")>>
  /\ r.gomaResp.Error = "BAD_REQUEST"
  /\ Len(r.gomaResp.ErrorMessage) = 1
  /\ r.platform = <<Prop("container-image", "img3"), Prop("OSFamily", "Linux")>>

\* the property names of the model in increasing order of their bytes
NamesInOrder ==
  <<"InputRootAbsolutePath", "OSFamily", "cache-silo", "container-image",
    "dockerPrivileged", "dockerRunAsRoot", "dockerRuntime">>

Rank(n) == CHOOSE i \in 1..Len(NamesInOrder) : NamesInOrder[i] = n

\* C10: the platform of the Command has its properties in strictly
\* increasing order of name (so no name twice), and holds exactly the names
\* that were added, each with the value of its last addition.
C10_PlatformSortedLastWins ==
  r.command.set =>
    LET P == r.command.Platform IN
    /\ \A i \in 1..(Len(P) - 1) : Rank(P[i].Name) < Rank(P[i + 1].Name)
    /\ Names(P) = Names(r.added)
    /\ \A n \in Names(r.added) : HasOnce(P, n, LastValue(r.added, n))

\* the inventory's list was out of order, the client's InputRootAbsolutePath
\* was replaced by the wrapper's, and the Command holds the sorted result
C10_Witness ==
  /\ r.command.set
  /\ r.wrapper = "wrapperInputRootAbsolutePath"
  /\ inventory.cmdConfig.Properties =
       <<Prop("container-image", "img1"), Prop("OSFamily", "Linux")>>
  /\ gomaReq.PlatformProperties =
       <<Prop("InputRootAbsolutePath", "/cli"), Prop("container-image", "img3")>>
  /\ r.command.Platform =
       <<Prop("InputRootAbsolutePath", "/work"), Prop("OSFamily", "Linux"),
         Prop("container-image", "img3"), Prop("dockerRuntime", "runsc")>>

-----------------------------------------------------------------------------
(* Properties of the command line and of the environment.                  *)

\* the names of the model's environment in increasing order of their bytes
EnvNamesInOrder == <<"INCLUDE", "LIB", "PATH", "PWD", "PWDX", "WORK_DIR">>

EnvRank(n) == CHOOSE i \in 1..Len(EnvNamesInOrder) : <<EnvNamesInOrder[i]>> = n

\* the entry e is NAME=value for the name n: n has no "=" and e starts
\* with n and a "="
Names_Entry(e, n) == IndexOf(n, "=") = 0 /\ HasPrefix(e, n \o <<"=">>)

\* the names of the entries of a list of NAME=value strings
EntryNames(list) ==
  {SubSeq(list[i], 1, IndexOf(list[i], "=") - 1) : i \in 1..Len(list)}

\* C11: the environment variables of the Command are in strictly
\* increasing order of name (so no name twice), their names are exactly
\* the names of the NAME=value strings handed to createEnvVars, and each
\* has the value of the last string of its name.
C11_EnvSortedLastWins ==
  r.command.set =>
    LET E == r.command.EnvironmentVariables
        L == r.envs
    IN /\ \A i \in 1..(Len(E) - 1) : EnvRank(E[i].Name) < EnvRank(E[i + 1].Name)
       /\ {E[i].Name : i \in 1..Len(E)} = EntryNames(L)
       /\ \A i \in 1..Len(E) :
            \E k \in 1..Len(L) :
              /\ L[k] = E[i].Name \o <<"=">> \o E[i].Value
              /\ \A j \in (k + 1)..Len(L) : ~Names_Entry(L[j], E[i].Name)

\* the client's two PATH entries were collapsed into the second, whose
\* value has a "=", and PATH was put before WORK_DIR
C11_Witness ==
  /\ r.command.set
  /\ r.envs = <<<<"WORK_DIR", "=", ".">>, <<"PATH", "=", "/bin">>,
                <<"PATH", "=", "a", "=", "b">>>>
  /\ r.command.EnvironmentVariables =
       <<EnvVar(<<"PATH">>, <<"a", "=", "b">>), EnvVar(<<"WORK_DIR">>, <<".">>)>>

\* newWrapperScript was called: in SpecCommand nothing before it fails
WrapperCalled == HasRun("newInputTree")

\* newWrapperScript returned without an error
WrapperMade == r.args # <<>>

WindowsCross == inventory.cmdConfig.WindowsCross

\* the verdict of the relocatability check on the request
Relocatable ==
  CASE inventory.cmdConfig.Selector \in {"gcc", "g++", "clang", "clang++", "clang-cl"} ->
         gomaReq.Relocatable
    [] inventory.cmdConfig.Selector = "javac" -> TRUE
    [] OTHER -> FALSE

\* C17: the strategy is a function of the path algebra, needChroot, the
\* relocatability verdict and windows_cross: POSIX with needChroot is
\* nsjail-chroot; POSIX without is relocatable or input-root-absolute;
\* Windows without windows_cross is win or win-input-root-absolute;
\* windows_cross is relocatable or input-root-absolute.  A selector other
\* than gcc, g++, clang, clang++, clang-cl and javac is never relocatable,
\* javac always.
C17_StrategyTable ==
  WrapperCalled =>
    r.wrapper =
      CASE WindowsCross ->
             IF Relocatable THEN "wrapperRelocatable" ELSE "wrapperInputRootAbsolutePath"
        [] inventory.cmdConfig.PathType = "POSIX" /\ r.needChroot -> "wrapperNsjailChroot"
        [] inventory.cmdConfig.PathType = "POSIX" ->
             IF Relocatable THEN "wrapperRelocatable" ELSE "wrapperInputRootAbsolutePath"
        [] OTHER ->
             IF Relocatable THEN "wrapperWin" ELSE "wrapperWinInputRootAbsolutePath"

\* under windows_cross, with needChroot set, a non-relocatable clang-cl
\* request was given the input-root-absolute strategy
C17_Witness ==
  /\ WrapperMade
  /\ WindowsCross /\ r.needChroot
  /\ inventory.cmdConfig.Selector = "clang-cl" /\ ~gomaReq.Relocatable
  /\ r.wrapper = "wrapperInputRootAbsolutePath"

\* the root directory is on the C: drive, in either case of the letter
OnCDrive(dir) == dir \in {"C:\\src", "c:\\src"}

\* newInputTree turned the request down as a bad request: no
\* InputRootAbsolutePath was added and no command line was made
Rejected ==
  /\ pc = "done"
  /\ ret = Returned("newInputTree", TRUE, Nil)
  /\ r.gomaResp.Error = "BAD_REQUEST"
  /\ "InputRootAbsolutePath" \notin Names(r.added)
  /\ r.args = <<>> /\ ~r.command.set /\ r.actionDigest = "nil"

\* C18 as stated: a non-relocatable request under windows_cross whose root
\* is not on the C: drive is rejected as a bad request, with no
\* InputRootAbsolutePath property and no action.
C18_CrossNonCDriveRejected ==
  (WrapperCalled /\ WindowsCross /\ ~Relocatable /\ ~OnCDrive(r.rootDir)) => Rejected

\* C18 as amended: a non-relocatable request of a Windows client without
\* windows_cross whose root is not on the C: drive is rejected as a bad
\* request, with no InputRootAbsolutePath property and no action; under
\* windows_cross a non-relocatable request is not rejected whatever its
\* drive, and InputRootAbsolutePath is its root in POSIX form.
C18_NativeNonCDriveRejected ==
  /\ (WrapperCalled /\ inventory.cmdConfig.PathType = "WINDOWS" /\ ~WindowsCross
      /\ ~Relocatable /\ ~OnCDrive(r.rootDir)) => Rejected
  /\ (WrapperCalled /\ WindowsCross /\ ~Relocatable) =>
       /\ ~ret.hasResp
       /\ r.gomaResp.Error = "unset"
       /\ r.wrapper = "wrapperInputRootAbsolutePath"
       /\ LastValue(r.added, "InputRootAbsolutePath") = "/src"
       /\ WrapperMade

\* a Windows client's non-relocatable request rooted on D: was rejected
C18_Witness ==
  /\ Rejected
  /\ ~WindowsCross
  /\ r.wrapper = "wrapperWinInputRootAbsolutePath"
  /\ r.rootDir = "D:\\src"

\* a path without the separators of Windows
Slashed(path) == [i \in 1..Len(path) |-> IF path[i] = "\\" THEN "/" ELSE path[i]]

\* the path has no directory in it
NoSeparator(path) == \A i \in 1..Len(path) : path[i] \notin {"/", "\\"}

\* the root-relative path of the wrapper file at index 0
FirstWrapper == r.files[1].Name

\* C19 as stated: the first argument is the root-relative path of the
\* wrapper file at index 0 (in POSIX form under windows_cross), prefixed
\* with ./ if and only if that path has no directory separator.
C19_DotSlashIffNoSeparator ==
  WrapperMade =>
    IF NoSeparator(FirstWrapper)
    THEN r.args[1] = <<".", "/">> \o FirstWrapper
    ELSE r.args[1] \in {FirstWrapper, Slashed(FirstWrapper)}

\* C19 as amended: the first argument is the root-relative path of the
\* wrapper file at index 0, in POSIX form under windows_cross, and it is
\* prefixed with ./ if and only if that path is run.sh itself; run.exe in
\* a working directory equal to the root is not prefixed.
C19_DotSlashIffRunSh ==
  WrapperMade =>
    /\ r.files[1].of = "wrapper"
    /\ IF FirstWrapper = <<"run.sh">>
       THEN r.args[1] = <<".", "/", "run.sh">>
       ELSE r.args[1] = (IF WindowsCross THEN Slashed(FirstWrapper) ELSE FirstWrapper)
    /\ HasPrefix(r.args[1], <<".", "/">>) <=> FirstWrapper = <<"run.sh">>
    /\ r.command.set => r.command.Arguments[1] = r.args[1]

\* a Windows client's request in the root runs run.exe without a prefix
C19_Witness ==
  /\ r.command.set
  /\ r.wrapper = "wrapperWin"
  /\ FirstWrapper = <<"run.exe">>
  /\ r.command.Arguments[1] = <<"run.exe">>

\* the entries of list that start with one of the prefixes
Starting(list, prefixes) ==
  SelectSeq(list, LAMBDA e : \E q \in prefixes : HasPrefix(e, q))

NotStarting(list, prefixes) ==
  SelectSeq(list, LAMBDA e : \A q \in prefixes : ~HasPrefix(e, q))

IncludeLib == {<<"INCLUDE", "=">>, <<"LIB", "=">>}

\* the root-relative working directory, "." for the root itself
WorkDir ==
  LET dir == IF Len(FirstWrapper) = 1 THEN <<".">>
             ELSE SubSeq(FirstWrapper, 1, Len(FirstWrapper) - 2)
  IN IF WindowsCross THEN Slashed(dir) ELSE dir

\* the environment of the request is WORK_DIR followed by what the
\* strategy forwards of the list client
EnvForwarded(client) ==
  /\ r.envs[1] = <<"WORK_DIR", "=">> \o WorkDir
  /\ SubSeq(r.envs, 2, Len(r.envs)) =
       CASE r.wrapper = "wrapperRelocatable" -> NotStarting(client, {<<"PWD", "=">>})
         [] r.wrapper = "wrapperInputRootAbsolutePath" -> client
         [] r.wrapper = "wrapperWinInputRootAbsolutePath" -> Starting(client, IncludeLib)
         [] OTHER -> <<>>
  /\ (r.wrapper = "wrapperRelocatable" /\ r.command.set) =>
       \A i \in 1..Len(r.command.EnvironmentVariables) :
         r.command.EnvironmentVariables[i].Name # <<"PWD">>

\* C20 as stated: relocatable forwards every client entry but those
\* starting with PWD=, input-root-absolute every client entry, win and
\* nsjail-chroot none, win-input-root-absolute those starting with INCLUDE=
\* or LIB=, and WORK_DIR=<root-relative cwd> is present in every strategy.
C20_EnvByStrategy == WrapperMade => EnvForwarded(gomaReq.Env)

\* C20 as amended: as stated, except that under windows_cross the client
\* entries starting with INCLUDE= or LIB= are removed before the strategy
\* forwards the rest.
C20_EnvByStrategyCross ==
  WrapperMade =>
    EnvForwarded(IF WindowsCross THEN NotStarting(gomaReq.Env, IncludeLib)
                 ELSE gomaReq.Env)

\* under windows_cross the input-root-absolute strategy forwarded the
\* client's PWD but not its INCLUDE
C20_Witness ==
  /\ r.command.set
  /\ WindowsCross
  /\ r.wrapper = "wrapperInputRootAbsolutePath"
  /\ gomaReq.Env = <<<<"INCLUDE", "=", "C:", "\\", "inc", ";", "D:", "\\", "sdk">>,
                     <<"PWD", "=", "/work">>>>
  /\ r.envs = <<<<"WORK_DIR", "=", "out", "/", "Release">>, <<"PWD", "=", "/work">>>>

-----------------------------------------------------------------------------
(* Properties of the inputs of a request.                                  *)

Least(a, b) == IF a < b THEN a ELSE b

\* inputFiles has run: the answers for the inputs are recorded
InputsAnswered == r.answers # <<>>

\* the inputs whose answer is one of S
Answered(S) == {i \in 1..Len(r.answers) : r.answers[i] \in S}

DigestFailures == {"not found", "unavailable"}

\* the answers of the file service to an upload that do not fit the batch
Mismatches == {"short", "other key"}

\* the file service gave an answer of S to the upload of the inputs
UploadAnswered(S) ==
  \E i \in 1..Len(calls) : calls[i][1] = "FileService.upload" /\ calls[i][2] \in S

\* C12 as stated: when the file service answers the upload of the embedded
\* inputs with a list of another length or with another key, the request
\* fails (newInputTree records or returns an error) and neither the action
\* is assembled nor Execute called.
C12_UploadMismatchFatal ==
  UploadAnswered(Mismatches) =>
    /\ r.err # Nil \/ (ret.by = "newInputTree" /\ ret.err # Nil)
    /\ ~r.command.set
    /\ ~HasCall("Execute")

\* C12, amended: such an answer makes uploadInputFiles return an error,
\* that of the mismatch unless the upload of another batch failed, and
\* newInputTree only logs it: it records no error, returns no response and
\* no error, the tree is built and setupNewAction is the next stage.
C12_UploadMismatchLogged ==
  UploadAnswered(Mismatches) =>
    /\ r.uploadErr # Nil
    /\ \/ r.uploadErr.msg \in {"invalid number of hash keys", "hashkey missmatch"}
       \/ UploadAnswered({"error"})
    /\ r.inputRootDigest = "root"
    /\ ret.by = "newInputTree" =>
         /\ r.err = Nil
         /\ ~ret.hasResp
         /\ ret.err = Nil
         /\ pc = "setupNewAction"

\* the upload was answered with another key, and Execute has been called
C12_Witness ==
  /\ UploadAnswered({"other key"})
  /\ r.uploadErr # Nil
  /\ r.command.set
  /\ HasCall("Execute")
  /\ r.err = Nil

\* the filename of input i is listed in MissingInput with a reason
ListedMissing(i) ==
  \E k \in 1..Len(r.gomaResp.MissingInput) :
    /\ r.gomaResp.MissingInput[k] = gomaReq.Input[i].Filename
    /\ k <= Len(r.gomaResp.MissingReason)
    /\ r.gomaResp.MissingReason[k] # ""

\* C15 as stated: when the digest of an input under the root cannot be
\* obtained and no input fails with an error, newInputTree returns a
\* response that lists each such input in MissingInput with a non-empty
\* reason, the request's error stays nil, no wrapper is made, no tree is
\* built, nothing is uploaded, and Execute is not called.
C15_MissingInputResponse ==
  (InputsAnswered /\ Answered(DigestFailures) # {} /\ Answered({"rootRel error"}) = {}) =>
    /\ ret.by = "newInputTree"
    /\ ret.hasResp
    /\ pc = "done"
    /\ \A i \in Answered(DigestFailures) : ListedMissing(i)
    /\ r.err = Nil
    /\ r.wrapper = "none"
    /\ r.args = <<>>
    /\ r.files = <<>>
    /\ r.inputRootDigest = "nil"
    /\ ~HasCall("FileService.upload")
    /\ ~HasCall("Execute")

\* the filenames of the inputs whose digest could not be obtained, in the
\* order of the inputs
FailedNames ==
  LET failed == Indices([i \in 1..Len(r.answers) |-> r.answers[i] \in DigestFailures])
  IN [k \in 1..Len(failed) |-> gomaReq.Input[failed[k]].Filename] \o <<>>

\* how often x occurs in a list
Times(list, x) == Cardinality({k \in 1..Len(list) : list[k] = x})

\* MissingInput lists as many of the names, each with a reason, and none
\* of them more often than it is among them
ListsOf(names, many) ==
  LET mi == r.gomaResp.MissingInput
      mr == r.gomaResp.MissingReason
  IN /\ Len(mi) = many
     /\ \A k \in 1..Len(mi) :
          /\ Times(names, mi[k]) >= 1
          /\ Times(mi, mi[k]) <= Times(names, mi[k])
          /\ k <= Len(mr)
          /\ mr[k] # ""

\* C15, amended: the response lists each such input when fewer than
\* missingInputLimit are missing and missingInputLimit of them otherwise,
\* each with a non-empty reason; the rest is as stated.
C15_MissingInputResponseThinned ==
  (InputsAnswered /\ Answered(DigestFailures) # {} /\ Answered({"rootRel error"}) = {}) =>
    /\ ret.by = "newInputTree"
    /\ ret.hasResp
    /\ pc = "done"
    /\ ListsOf(FailedNames, Least(Len(FailedNames), missingInputLimit))
    /\ r.err = Nil
    /\ r.wrapper = "none"
    /\ r.args = <<>>
    /\ r.files = <<>>
    /\ r.inputRootDigest = "nil"
    /\ ~HasCall("FileService.upload")
    /\ ~HasCall("Execute")

\* one more input than the limit is missing and the first is left out
C15_WitnessThinned ==
  /\ InputsAnswered
  /\ Cardinality(Answered(DigestFailures)) = missingInputLimit + 1
  /\ ret.hasResp
  /\ Len(r.gomaResp.MissingInput) = missingInputLimit
  /\ ~ListedMissing(1)

\* the second input is not found while the first, embedded, is
C15_Witness ==
  /\ r.answers = <<"ok", "not found">>
  /\ gomaReq.Input[1].Embedded
  /\ ret.hasResp
  /\ r.gomaResp.MissingInput = <<"b.h">>
  /\ r.gomaResp.MissingReason = <<"input: not found">>

\* the entries of the inputs among the entries set in the tree
InputEntries == SelectSeq(r.files, LAMBDA e : e.of = "input")

\* the root-relative path of input i: the directory of the wrapper, which
\* is the working directory, and the filename
RootRelative(i) ==
  SubSeq(FirstWrapper, 1, Len(FirstWrapper) - 1) \o <<gomaReq.Input[i].Filename>>

\* C16: an input outside the root gets no entry, is not reported missing
\* by newInputTree, is not handed to the upload, and records no error; an
\* input under the root whose digest is obtained has an entry named by its
\* root-relative path among the entries set in the tree.
C16_OutOfRootSkipped ==
  InputsAnswered =>
    /\ \A i \in Answered({"errOutOfRoot"}) :
         LET name == gomaReq.Input[i].Filename IN
         /\ \A k \in 1..Len(r.files) : r.files[k].Name[Len(r.files[k].Name)] # name
         /\ ret.by = "newInputTree" =>
              \A k \in 1..Len(r.gomaResp.MissingInput) : r.gomaResp.MissingInput[k] # name
         /\ \A k \in 1..Len(r.uploaded) : r.uploaded[k] # name
    /\ (Answered({"ok", "errOutOfRoot"}) = 1..Len(r.answers) /\ ret.by = "newInputTree") =>
         /\ r.gomaResp.MissingInput = <<>>
         /\ ~ret.hasResp
         /\ r.err = Nil \/ r.err.msg = "treeBuild"
    /\ r.inputRootDigest = "root" =>
         \A i \in Answered({"ok"}) :
           \E k \in 1..Len(InputEntries) : InputEntries[k].Name = RootRelative(i)

\* the first input is outside the root, the second under the working directory
C16_Witness ==
  /\ r.answers = <<"errOutOfRoot", "ok">>
  /\ gomaReq.Input[1].Embedded
  /\ r.inputRootDigest = "root"
  /\ Len(InputEntries) = 1
  /\ InputEntries[1].Name = <<"out", "/", "Release", "/", "b.h">>
  /\ r.uploaded = <<>>
  /\ HasCall("Execute")

-----------------------------------------------------------------------------
(* Properties of the missing inputs of a response.                         *)

\* a stage has returned a response that reports missing inputs; r.missing
\* holds the missing inputs and their reasons as the stage collected them
Reported == ret.hasResp /\ r.missing # <<>>

\* the position of a filename in the request's input list, 0 for none;
\* that of its last occurrence when the list names it several times
Position(name) ==
  LET at == {i \in 1..Len(gomaReq.Input) : gomaReq.Input[i].Filename = name}
  IN IF at = {} THEN 0 ELSE CHOOSE i \in at : \A j \in at : j <= i

\* C13: of n missing inputs, collected from the digests or from a failed
\* upload, thinOutMissing and sortMissing leave min(n, missingInputLimit)
\* in MissingInput, each one of the n and none more often than among them,
\* in the order of the request's input list.
C13_ThinnedSorted ==
  Reported =>
    LET mi == r.gomaResp.MissingInput
        orig == [k \in 1..Len(r.missing) |-> r.missing[k][1]] \o <<>>
        at == [k \in 1..Len(mi) |-> Position(mi[k])] \o <<>>
    IN /\ Len(mi) = Least(Len(orig), missingInputLimit)
       /\ \A k \in 1..Len(mi) :
            /\ Times(orig, mi[k]) >= 1
            /\ Times(mi, mi[k]) <= Times(orig, mi[k])
       /\ \A k \in 1..(Len(mi) - 1) : at[k] <= at[k + 1]

\* more inputs than the limit are missing, and the first of them is among
\* those thinned out
C13_Witness ==
  /\ Reported
  /\ ret.by = "newInputTree"
  /\ Len(r.missing) > missingInputLimit
  /\ Len(r.gomaResp.MissingInput) = missingInputLimit
  /\ r.missing[1][1] = "1"
  /\ r.gomaResp.MissingInput[1] = "2"

\* C14: in a response that reports missing inputs MissingInput and
\* MissingReason have the same length, and MissingReason[i] is the reason
\* recorded for the file MissingInput[i].
C14_ReasonsFollowInputs ==
  Reported =>
    LET mi == r.gomaResp.MissingInput
        mr == r.gomaResp.MissingReason
    IN /\ Len(mi) = Len(mr)
       /\ \A k \in 1..Len(mi) :
            \E j \in 1..Len(r.missing) : r.missing[j] = <<mi[k], mr[k]>>

\* one more input than the limit is missing: MissingInput is cut to the
\* limit and MissingReason holds one reason more
C14_Witness ==
  /\ Reported
  /\ ret.by = "newInputTree"
  /\ Len(r.missing) = missingInputLimit + 1
  /\ Len(r.gomaResp.MissingInput) = missingInputLimit
  /\ Len(r.gomaResp.MissingReason) = missingInputLimit + 1

-----------------------------------------------------------------------------
(* Properties of the strategies: the root property and the hardening.      *)

\* the properties of the name in a list
Named(props, name) == SelectSeq(props, LAMBDA p : p.Name = name)

\* the additions to the platform after those of getInventoryData, which
\* adds the configuration's properties and the client's overrides
WrapperAdded ==
  SubSeq(r.added,
         Len(inventory.cmdConfig.Properties) + Len(gomaReq.PlatformProperties) + 1,
         Len(r.added))

RootStrategies == {"wrapperInputRootAbsolutePath", "wrapperWinInputRootAbsolutePath"}

\* the root a root strategy declares: the detected root, in POSIX form
\* under windows_cross
DeclaredRoot == IF WindowsCross THEN "/src" ELSE r.rootDir

\* C21: under input-root-absolute and win-input-root-absolute the Command's
\* platform has exactly one InputRootAbsolutePath, the detected root (in
\* POSIX form under windows_cross), whatever the configuration or the
\* client gave; the other strategies add no InputRootAbsolutePath.
C21_RootPropertyIsRoot ==
  /\ (r.command.set /\ r.wrapper \in RootStrategies) =>
       Named(r.command.Platform, "InputRootAbsolutePath")
         = <<Prop("InputRootAbsolutePath", DeclaredRoot)>>
  /\ (WrapperCalled /\ r.wrapper \notin RootStrategies) =>
       Named(WrapperAdded, "InputRootAbsolutePath") = <<>>

\* input-root-absolute under windows_cross on D:, the configuration and
\* the client each giving a root of their own
C21_Witness ==
  /\ r.command.set
  /\ r.wrapper = "wrapperInputRootAbsolutePath"
  /\ WindowsCross
  /\ r.rootDir = "D:\\src"
  /\ Named(inventory.cmdConfig.Properties, "InputRootAbsolutePath") # <<>>
  /\ Named(gomaReq.PlatformProperties, "InputRootAbsolutePath") # <<>>
  /\ Named(r.command.Platform, "InputRootAbsolutePath")
       = <<Prop("InputRootAbsolutePath", "/src")>>

\* a command file that is no symlink has a hash of the blocklist
Blocked ==
  \E i \in 1..Len(f.DisableHardenings), j \in 1..Len(inventory.cmdFiles) :
    /\ f.DisableHardenings[i] # ""
    /\ inventory.cmdFiles[j].Symlink = ""
    /\ inventory.cmdFiles[j].Hash = f.DisableHardenings[i]

\* the names of the wrapper files set in the tree
WrapperNames ==
  LET w == SelectSeq(r.files, LAMBDA e : e.of = "wrapper")
  IN [i \in 1..Len(w) |-> w[i].Name]

\* C22: hardening is applied only under relocatable and
\* input-root-absolute, never when a command file is on the blocklist and
\* never with a ratio of 0; applied, it is either the nsjail script with
\* nsjail.cfg after the wrapper and dockerPrivileged=true, or
\* dockerRuntime=runsc with the plain wrapper, never both.
C22_HardeningOneEffect ==
  WrapperCalled =>
    /\ r.hardening # "none" =>
         r.wrapper \in {"wrapperRelocatable", "wrapperInputRootAbsolutePath"}
    /\ Blocked => r.hardening = "none"
    /\ f.HardeningRatio = 0 => r.hardening = "none"
    /\ r.hardening \in {"none", "nsjail", "runsc"}
    /\ r.hardening = "nsjail" =>
         /\ Named(WrapperAdded, "dockerPrivileged") = <<Prop("dockerPrivileged", "true")>>
         /\ Named(WrapperAdded, "dockerRuntime") = <<>>
         /\ WrapperMade => WrapperNames = <<<<"run.sh">>, <<"nsjail.cfg">>>>
    /\ r.hardening = "runsc" =>
         /\ Named(WrapperAdded, "dockerRuntime") = <<Prop("dockerRuntime", "runsc")>>
         /\ Named(WrapperAdded, "dockerPrivileged") = <<>>
         /\ WrapperMade => WrapperNames = <<<<"run.sh">>>>
    /\ (r.hardening = "none" /\ r.wrapper # "wrapperNsjailChroot") =>
         /\ Named(WrapperAdded, "dockerRuntime") = <<>>
         /\ Named(WrapperAdded, "dockerPrivileged") = <<>>
         /\ WrapperMade => Len(WrapperNames) = 1

\* the blocklist names only a symlink and a file without hash, and the
\* nsjail hardening is applied under input-root-absolute
C22_Witness ==
  /\ WrapperMade
  /\ r.wrapper = "wrapperInputRootAbsolutePath"
  /\ r.hardening = "nsjail"
  /\ f.DisableHardenings = <<"", "h1", "h2">>
  /\ inventory.cmdFiles = LinkedFiles
  /\ WrapperNames = <<<<"run.sh">>, <<"nsjail.cfg">>>>

-----------------------------------------------------------------------------
(* Properties of the translation of the result.                            *)

\* newResp read what of the byte stream and got an answer of codes
Fetched(what, codes) ==
  \E i \in 1..Len(calls) :
    /\ calls[i][1] = "ByteStream.Read"
    /\ calls[i][2] = what
    /\ calls[i][3] \in codes

\* newResp read an output file or directory
OutputFetched ==
  \E i \in 1..Len(calls) :
    calls[i][1] = "ByteStream.Read" /\ calls[i][2] \in {"file", "directory"}

\* every read of the byte stream succeeded
AllFetched ==
  \A i \in 1..Len(calls) : calls[i][1] = "ByteStream.Read" => calls[i][3] = "OK"

\* newResp has a result to look at
HasResult == Translated /\ eresp.Status = "OK" /\ eresp.Result.present

\* newResp returned the docker failure
DockerReturned == ret.err = StatusErr("Internal", "docker error")

\* newResp returned the response with the exit status and no error
NormalResponse ==
  /\ ret.hasResp
  /\ ret.err = Nil
  /\ r.err = Nil
  /\ r.gomaResp.ExitStatusSet
  /\ r.gomaResp.ExitStatus = eresp.Result.ExitCode

\* C23: for exit code 127 with the text of the docker failure in the
\* stdout that was fetched, newResp returns an Internal error and no
\* successful response; with another exit code, or with the text in stderr
\* only, there is no such error, and the response is the normal one when
\* nothing else fails.
C23_DockerFailureIsInternal ==
  HasResult =>
    /\ (/\ eresp.Result.ExitCode = 127 /\ eresp.Result.docker
        /\ Fetched("stdout", {"OK"}) /\ ~Fetched("stderr", {"Unauthenticated"})) =>
         /\ DockerReturned
         /\ r.err = Nil
         /\ ~r.gomaResp.ExitStatusSet
         /\ ~OutputFetched
    /\ (eresp.Result.ExitCode # 127 \/ ~eresp.Result.docker) =>
         /\ ~DockerReturned
         /\ (/\ AllFetched /\ r.gomaResp.ErrorMessage = <<>>
             /\ ret.err.msg # "failed to reduce resp size") => NormalResponse

\* exit code 127 and the text in stderr only: the normal response
C23_WitnessStderr ==
  /\ HasResult
  /\ eresp.Result = StderrResult(127)
  /\ Fetched("stderr", {"OK"})
  /\ NormalResponse
  /\ r.gomaResp.ExitStatus = 127

\* exit code 127 and the text in stdout: the Internal error
C23_Witness ==
  /\ HasResult
  /\ eresp.Result = ActionResult(127, TRUE)
  /\ DockerReturned

\* C24: for a Status that is not OK newResp returns the response with an
\* "Execute error" message appended and a nil error, fetches nothing and
\* sets no exit status; for an ExecuteResponse without a Result it returns
\* the same shape.
C24_StatusErrorIsMessage ==
  (Translated /\ (eresp.Status # "OK" \/ ~eresp.Result.present)) =>
    /\ ret.hasResp
    /\ ret.err = Nil
    /\ r.err = Nil
    /\ Len(r.gomaResp.ErrorMessage) = 1
    /\ eresp.Status # "OK" =>
         r.gomaResp.ErrorMessage[1] = <<"Execute error", eresp.Status, "">>
    /\ ~HasCall("ByteStream.Read")
    /\ ~HasCall("FileService.upload")
    /\ ~r.gomaResp.ExitStatusSet

\* the Status is Internal although the response has a Result
C24_Witness ==
  /\ Translated
  /\ eresp.Status = "Internal"
  /\ eresp.Result.present
  /\ ret.hasResp
  /\ r.gomaResp.ErrorMessage = <<<<"Execute error", "Internal", "">>>>

\* C25: when the fetch of stdout or of stderr fails with Unauthenticated,
\* newResp records that error, returns it with its code Unauthenticated,
\* and fetches no output file or directory.
C25_UnauthenticatedFetch ==
  \A what \in {"stdout", "stderr"} :
    (Translated /\ Fetched(what, {"Unauthenticated"})) =>
      /\ r.err = StatusErr("Unauthenticated", "ByteStream")
      /\ ret.err = r.err
      /\ ret.err.code = "Unauthenticated"
      /\ ~OutputFetched
      /\ calls[Len(calls)] = Fetch(what, "Unauthenticated")
      /\ ~r.gomaResp.ExitStatusSet

\* stdout was fetched and the fetch of stderr was refused
C25_Witness ==
  /\ Translated
  /\ Fetched("stdout", {"OK"})
  /\ Fetched("stderr", {"Unauthenticated"})
  /\ ret.err = StatusErr("Unauthenticated", "ByteStream")

-----------------------------------------------------------------------------
(* Properties of uploadBlobs.                                              *)

\* the last call is cas.Upload, answered with a cas.MissingError
MissingErrorReturned ==
  /\ ret.by = "uploadBlobs"
  /\ Len(calls) > 0
  /\ calls[Len(calls)][1] = "CAS.Upload"
  /\ calls[Len(calls)][2] = "MissingError"

\* the failed blobs of that answer that are blobs of input files, by their
\* filenames
FailedInputs ==
  SelectSeq(calls[Len(calls)][3],
            LAMBDA b : \E i \in 1..Len(gomaReq.Input) : gomaReq.Input[i].Filename = b)

\* uploadBlobs recorded the error of cas.Upload and returned it, without
\* a response
UploadErrorReturned ==
  /\ ~ret.hasResp
  /\ r.err # Nil
  /\ r.err.msg \in {"cas.MissingError", "cas.Upload"}
  /\ ret.err = r.err
  /\ r.gomaResp.MissingInput = <<>>
  /\ pc = "executeAction"

\* uploadBlobs returned a response that names inputs and no error
MissingResponse ==
  /\ ret.hasResp
  /\ ret.err = Nil
  /\ r.err = Nil
  /\ LET failed == FailedInputs \o <<>>
          named == r.gomaResp.MissingInput
     IN \A k \in 1..Len(named) :
          /\ Times(failed, named[k]) >= 1
          /\ Times(named, named[k]) <= Times(failed, named[k])

\* another failure of cas.Upload than a cas.MissingError ends in the error
OtherFailure ==
  (/\ ret.by = "uploadBlobs" /\ Len(calls) > 0
   /\ calls[Len(calls)][1] = "CAS.Upload" /\ calls[Len(calls)][2] = "error") =>
    UploadErrorReturned

\* C26 as stated: after a cas.MissingError uploadBlobs returns a response
\* that names exactly the failed blobs of input files, a nil error and
\* leaves r.err nil; when no failed blob is one of an input file, or the
\* failure is another one, the error is recorded and returned without a
\* response.
C26_FailedInputsNamed ==
  /\ MissingErrorReturned =>
       IF FailedInputs # <<>>
       THEN MissingResponse
            /\ Len(r.gomaResp.MissingInput) = Len(FailedInputs)
       ELSE UploadErrorReturned
  /\ OtherFailure

\* C26, amended: the response names the failed blobs of input files, all
\* of them when they are fewer than missingInputLimit and
\* missingInputLimit of them otherwise.
C26_FailedInputsNamedThinned ==
  /\ MissingErrorReturned =>
       IF FailedInputs # <<>>
       THEN MissingResponse
            /\ Len(r.gomaResp.MissingInput) = Least(Len(FailedInputs), missingInputLimit)
       ELSE UploadErrorReturned
  /\ OtherFailure

\* the blob of the wrapper and those of two inputs failed: the inputs are
\* named in the order of the request
C26_Witness ==
  /\ MissingErrorReturned
  /\ calls[Len(calls)][3] = <<"b.h", "", "a.c">>
  /\ ret.hasResp
  /\ r.gomaResp.MissingInput = <<"a.c", "b.h">>
  /\ r.err = Nil

\* only the blob of the wrapper failed: the error is recorded
C26_WitnessNoInput ==
  /\ MissingErrorReturned
  /\ calls[Len(calls)][3] = <<"">>
  /\ UploadErrorReturned

-----------------------------------------------------------------------------
(* Properties of uploadInputFiles.                                         *)

\* uploadInputFiles is running or has returned
UploadCalled == eg.phase # "none"

\* the loop over the inputs is over
AllStarted == UploadCalled /\ eg.i = Len(eg.inputs)

UploadReturned == eg.phase = "returned"

\* the batches that hold input j, the first input being input 1
BatchesOf(j) == {k \in 1..Len(eg.tasks) : eg.tasks[k].begin < j /\ j <= eg.tasks[k].end}

\* C27: the batches are contiguous slices of the list that follow each
\* other in its order; every input the loop has passed is in one batch
\* when its batch was started and no input is in two; after the loop each
\* input is in exactly one; an empty list starts no batch and nil is
\* returned; a slot of the hash keys is written only by the task of the
\* batch its input is in.
C27_BatchesCoverInputs ==
  UploadCalled =>
    /\ \A k \in 1..Len(eg.tasks) :
         /\ eg.tasks[k].begin < eg.tasks[k].end
         /\ eg.tasks[k].begin = (IF k = 1 THEN 0 ELSE eg.tasks[k - 1].end)
         /\ eg.tasks[k].end <= eg.i
    /\ \A j \in 1..Len(eg.inputs) :
         /\ Cardinality(BatchesOf(j)) = (IF j <= eg.beginOffset THEN 1 ELSE 0)
         /\ eg.writer[j] # 0 =>
              /\ eg.writer[j] \in BatchesOf(j)
              /\ eg.hashKeys[j] = eg.inputs[j].HashKey
         /\ eg.writer[j] = 0 => eg.hashKeys[j] = ""
    /\ AllStarted => eg.beginOffset = Len(eg.inputs)
    /\ (eg.inputs = <<>>) => eg.tasks = <<>>
    /\ (eg.inputs = <<>> /\ UploadReturned) => eg.ret = Nil

\* more than batchLimit inputs were uploaded in two batches and each key
\* was written
C27_Witness ==
  /\ UploadReturned
  /\ Len(eg.inputs) > batchLimit
  /\ Len(eg.tasks) = 2
  /\ eg.seen = Len(eg.inputs)
  /\ eg.writer[batchLimit] = 1
  /\ eg.writer[Len(eg.inputs)] = 2

\* the empty list: nothing started, nil returned
C27_WitnessEmpty == UploadReturned /\ eg.inputs = <<>> /\ eg.tasks = <<>> /\ eg.ret = Nil

\* the size of the contents of inputs a to b
RECURSIVE SizeOf(_, _, _)
SizeOf(inputs, a, b) ==
  IF a > b THEN 0
  ELSE IF a = b THEN inputs[a].size
  ELSE LET m == (a + b) \div 2 IN SizeOf(inputs, a, m) + SizeOf(inputs, m + 1, b)

\* the slices of the batches
Slices == [k \in 1..Len(eg.tasks) |-> <<eg.tasks[k].begin, eg.tasks[k].end>>]

\* C28: no batch has more than batchLimit blobs; a batch is closed at the
\* first blob at which it has batchLimit blobs or its contents reach
\* sizeLimit (or at the last blob), so a batch without its last blob is
\* smaller than sizeLimit and an open batch is below both limits; one
\* input of sizeLimit or more is one batch, batchLimit empty inputs are one
\* batch, batchLimit + 1 empty inputs are a batch of batchLimit and one
\* of 1.
C28_BatchesBounded ==
  UploadCalled =>
    /\ \A k \in 1..Len(eg.tasks) :
         LET t == eg.tasks[k] IN
         /\ t.end - t.begin <= batchLimit
         /\ SizeOf(eg.inputs, t.begin + 1, t.end - 1) < sizeLimit
         /\ \/ t.end - t.begin = batchLimit
            \/ SizeOf(eg.inputs, t.begin + 1, t.end) >= sizeLimit
            \/ t.end = Len(eg.inputs)
    /\ eg.count = eg.i - eg.beginOffset
    /\ eg.count < batchLimit
    /\ eg.size = SizeOf(eg.inputs, eg.beginOffset + 1, eg.i)
    /\ eg.size < sizeLimit
    /\ (AllStarted /\ Len(eg.inputs) = 1 /\ eg.inputs[1].size >= sizeLimit) =>
         Slices = <<<<0, 1>>>>
    /\ (AllStarted /\ Len(eg.inputs) = batchLimit
          /\ SizeOf(eg.inputs, 1, batchLimit) = 0) =>
         Slices = <<<<0, batchLimit>>>>
    /\ (AllStarted /\ Len(eg.inputs) = batchLimit + 1
          /\ SizeOf(eg.inputs, 1, batchLimit + 1) = 0) =>
         Slices = <<<<0, batchLimit>>, <<batchLimit, batchLimit + 1>>>>

\* batchLimit + 1 empty inputs went into two batches
C28_Witness ==
  /\ AllStarted
  /\ Len(eg.inputs) = batchLimit + 1
  /\ SizeOf(eg.inputs, 1, batchLimit + 1) = 0
  /\ Len(eg.tasks) = 2

\* a batch was closed by the size of its contents before it had
\* batchLimit blobs
C28_WitnessSize ==
  /\ AllStarted
  /\ Len(eg.inputs) > batchLimit
  /\ eg.tasks[1].end < batchLimit
  /\ eg.tasks[1].end > 1

\* C29: once a task has returned an error the context of the tasks is
\* cancelled; uploadInputFiles returns only when every batch was started
\* and every task has returned, the error it returns is that of the task
\* that was the first to return one (nil when none did), and the summary
\* counted the hash keys as they stay.
C29_FirstFailureReturned ==
  UploadCalled =>
    /\ (eg.failed # <<>>) => eg.cancelled
    /\ (eg.failed # <<>>) => eg.err = eg.tasks[eg.failed[1]].err
    /\ UploadReturned =>
         /\ AllStarted
         /\ \A k \in 1..Len(eg.tasks) : eg.tasks[k].pc = "done"
         /\ eg.ret = (IF eg.failed = <<>> THEN Nil ELSE eg.tasks[eg.failed[1]].err)
         /\ eg.seen = Successful(eg.hashKeys)

\* the second of three tasks failed first; the first ended with the
\* context cancelled, the third uploaded its batch all the same
C29_Witness ==
  /\ UploadReturned
  /\ Len(eg.tasks) = 3
  /\ eg.failed = <<2, 1>>
  /\ eg.tasks[1].answer = "canceled"
  /\ eg.tasks[3].answer = "ok"
  /\ eg.ret = eg.tasks[2].err
  /\ eg.ret # eg.tasks[1].err
  /\ eg.seen = 1

-----------------------------------------------------------------------------
(* Properties of inputFiles.                                               *)

\* inputFiles is running or has returned
TasksStarted == wg.phase # "none"

\* inputFiles has returned and newInputTree has gone on with its results
TasksJoined == wg.phase = "returned"

\* the inputs whose processing fails with a hard error
HardErrors == {i \in 1..Len(wg.inputs) : wg.s.inputs[i] = "rootRel error"}

\* what newInputTree does up to the call of uploadInputFiles with the same
\* answers when the inputs are taken one after the other
InOrder ==
  inputTreeBuilt(wg.req, gomaReq, f, wg.s,
                 inputFiles(wg.inputs, wg.s.inputs, wg.req.filepath, wg.s.wd), <<>>)

\* the request newInputTree leaves when the inputs are taken one after the
\* other and uploadInputFiles returns what it has returned
InOrderRequest ==
  IF treeBuilt(InOrder)
  THEN inputTreeUploaded(InOrder, Uploads(wg.inputs, wg.results),
                         [err |-> r.uploadErr, calls |-> <<>>]).r
  ELSE InOrder.r

\* C30: a result is written by the task of its input alone and, once that
\* task has ended, is what describes that input; inputFiles returns when
\* every task has ended; if any input fails with a hard error the request
\* records the error of the first of them in the order of the inputs and
\* no input is reported missing; the request and what newInputTree
\* returns are those of the inputs taken one after the other, whatever
\* the order the tasks ran in and issued their calls in.
C30_TasksJoinedInOrder ==
  TasksStarted =>
    /\ \A i \in 1..Len(wg.inputs) :
         /\ wg.writer[i] \in {0, i}
         /\ wg.tasks[i].pc = "done" =>
              wg.results[i]
                = inputFiles(wg.inputs, wg.s.inputs, wg.req.filepath, wg.s.wd)[i]
         /\ wg.tasks[i].pc # "done" => wg.results[i] = NoResult
    /\ TasksJoined =>
         /\ \A i \in 1..Len(wg.inputs) : wg.tasks[i].pc = "done"
         /\ IF pc = "uploadInputFiles"
            THEN treeBuilt(InOrder) /\ r = InOrder.r
            ELSE /\ r = InOrderRequest
                 /\ ret = Returned("newInputTree", InOrder.resp, InOrder.err)
         /\ HardErrors # {} =>
              /\ r.err = InputErr(
                   wg.inputs[CHOOSE i \in HardErrors : \A j \in HardErrors : i <= j].Filename)
              /\ ~ret.hasResp
              /\ r.gomaResp.MissingInput = <<>>
         /\ HardErrors = {} => r.err = Nil

\* the first input is missing, the second and the third fail; the tasks
\* ended from the last to the first and the error is that of the second
C30_Witness ==
  /\ TasksJoined
  /\ wg.s.inputs = <<"not found", "rootRel error", "rootRel error">>
  /\ wg.ended = <<3, 2, 1>>
  /\ r.err = InputErr("b.h")
  /\ ~ret.hasResp

-----------------------------------------------------------------------------
(* Properties of dedupInputs.                                              *)

\* newInputTree has got to the call of inputFiles
InputsTaken == r.rootDir # ""

\* newInputTree called dedupInputs
DedupCalled == InputsTaken /\ r.filepath = "winpath" /\ ~r.cmdConfig.WindowsCross

\* the lower-cased absolute path of an input
KeyOf(input) == dedupKey("winpath", Cwd, input)

\* the place in the request of the first input of a key
FirstOf(key) ==
  CHOOSE i \in 1..Len(gomaReq.Input) :
    /\ KeyOf(gomaReq.Input[i]) = key
    /\ \A j \in 1..(i - 1) : KeyOf(gomaReq.Input[j]) # key

\* two inputs of the request have the same key
Collision ==
  \E i, j \in 1..Len(gomaReq.Input) :
    i # j /\ KeyOf(gomaReq.Input[i]) = KeyOf(gomaReq.Input[j])

\* C31: the list dedupInputs returns has no two entries of the same
\* lower-cased absolute path; every input of the request has its path
\* among them; the entry of a path is an input of the request whose
\* filename is no longer than that of any input of that path and, among
\* those of its length, not greater; the entries stand in the order in
\* which their paths first appear in the request.
C31_DedupKeepsShortest ==
  DedupCalled =>
    LET in == gomaReq.Input
        out == r.reqInputs
    IN /\ \A i, j \in 1..Len(out) : KeyOf(out[i]) = KeyOf(out[j]) => i = j
       /\ \A i \in 1..Len(in) : \E j \in 1..Len(out) : KeyOf(out[j]) = KeyOf(in[i])
       /\ \A j \in 1..Len(out) :
            /\ \E i \in 1..Len(in) : in[i] = out[j]
            /\ \A i \in 1..Len(in) :
                 KeyOf(in[i]) = KeyOf(out[j]) =>
                   LET kept == FileBytes[out[j].Filename]
                       other == FileBytes[in[i].Filename]
                   IN /\ Len(kept) <= Len(other)
                      /\ Len(kept) = Len(other) => ~BytesLess(other, kept)
       /\ \A i, j \in 1..Len(out) :
            i < j => FirstOf(KeyOf(out[i])) < FirstOf(KeyOf(out[j]))

\* the absolute name of a.c came first, b.h second, then two shorter
\* names of a.c: the smaller of these stands first, before b.h
C31_Witness ==
  /\ DedupCalled
  /\ [i \in 1..Len(gomaReq.Input) |-> gomaReq.Input[i].Filename]
       = <<"C:\\w\\a.c", "b.h", "A.c">>
  /\ [i \in 1..Len(r.reqInputs) |-> r.reqInputs[i].Filename] = <<"A.c", "b.h">>

\* of a.c, A.c and A.C the smallest by its bytes is kept
C31_WitnessTie ==
  /\ DedupCalled
  /\ [i \in 1..Len(gomaReq.Input) |-> gomaReq.Input[i].Filename] = <<"a.c", "A.c", "A.C">>
  /\ [i \in 1..Len(r.reqInputs) |-> r.reqInputs[i].Filename] = <<"A.C">>

\* C32: dedupInputs leaves the list it returned as it is; newInputTree
\* hands inputFiles the deduplicated inputs under winpath when the
\* compiler is no Windows cross compiler, and the inputs of the request
\* as they are otherwise.
C32_DedupIdempotent ==
  InputsTaken =>
    /\ DedupCalled =>
         /\ r.reqInputs = dedupInputs("winpath", Cwd, gomaReq.Input)
         /\ dedupInputs("winpath", Cwd, r.reqInputs) = r.reqInputs
    /\ ~DedupCalled => r.reqInputs = gomaReq.Input
    /\ Len(r.answers) = Len(r.reqInputs)

\* two of three inputs were dropped and a second pass drops none
C32_Witness ==
  /\ DedupCalled
  /\ Len(gomaReq.Input) = 3
  /\ Len(r.reqInputs) = 1
  /\ dedupInputs("winpath", Cwd, r.reqInputs) = r.reqInputs
  /\ Len(r.files) > 0

\* under windows_cross two inputs of one path both stay
C32_WitnessCross ==
  /\ InputsTaken
  /\ r.cmdConfig.WindowsCross
  /\ Collision
  /\ r.reqInputs = gomaReq.Input


-----------------------------------------------------------------------------
(* Properties of setupNewAction and the digest store.                      *)

InStore(d) == \E i \in 1..Len(r.digestStore) : r.digestStore[i] = d

Queried(d) == \E i \in 1..Len(r.queried) : r.queried[i] = d

\* the Command and the Action are in the digest store under the digests
\* the request carries, and the Action was digested with both of its
\* digests set
ActionReady ==
  /\ r.command.set
  /\ r.commandDigest = Proto(r.command) /\ InStore(r.commandDigest)
  /\ r.inputRootDigest # "nil" /\ r.commandDigest # "nil"
  /\ r.actionDigest = Proto(Action(r)) /\ InStore(r.actionDigest)

\* C33: once setupNewAction has succeeded the digest store holds the
\* serialized Command and Action, Action.CommandDigest is the digest of
\* the Command and r.actionDigest that of the Action with both digests
\* set; this holds whenever GetActionResult, FindMissingBlobs or the CAS
\* upload has been issued, and the list FindMissingBlobs was sent has the
\* action, the command and the tree nodes
C33_ActionStoredBeforeLookup ==
  /\ (ret.by = "setupNewAction" /\ r.err = Nil) => ActionReady
  /\ (HasCall("GetActionResult") \/ HasCall("FindMissingBlobs") \/ HasCall("CAS.Upload"))
       => ActionReady
  /\ HasCall("FindMissingBlobs") =>
       /\ Queried(r.actionDigest) /\ Queried(r.commandDigest)
       /\ \A i \in 1..Len(treeNodes) : Queried(treeNodes[i])

\* the lookup, the query and the upload were all issued for a request
\* whose action was set up
C33_Witness ==
  /\ HasCall("GetActionResult") /\ HasCall("FindMissingBlobs") /\ HasCall("CAS.Upload")
  /\ ActionReady /\ Len(r.queried) = 3

-----------------------------------------------------------------------------
(* Properties of buildArgs and addTargetIfNotExist.                        *)

\* newWrapperScript stored the command line
ArgsBuilt == r.args # <<>>

\* the arguments buildArgs returned: r.args without the wrapper's path
BuiltArgs == Tail(r.args)

\* the number of -imsvc arguments the client's environment gives
Imsvc ==
  IF inventory.cmdConfig.WindowsCross
  THEN LET incs == SelectSeq(gomaReq.Env, LAMBDA e : HasPrefix(e, <<"INCLUDE", "=">>))
       IN Len(incs) * 2
  ELSE 0

\* an argument -target or one that starts with --target=
IsTarget(arg) == arg = <<"-target">> \/ (arg # <<>> /\ arg[1] = "--target=")

\* C34: with clang_need_target and no argument that is -target or starts
\* with --target=, the command line ends with exactly one added argument
\* --target=<target>; with such an argument, or without clang_need_target,
\* nothing is added; a second pass of addTargetIfNotExist changes nothing
C34_TargetAddedOnce ==
  ArgsBuilt =>
    LET n == Len(gomaReq.Arg) + Imsvc
        given == \E i \in 1..Len(gomaReq.Arg) : IsTarget(gomaReq.Arg[i])
    IN /\ SubSeq(BuiltArgs, 2, Len(gomaReq.Arg))
            = IF inventory.cmdConfig.WindowsCross
              THEN crossArgs(Tail(gomaReq.Arg), FALSE) ELSE Tail(gomaReq.Arg)
       /\ IF inventory.cmdConfig.ClangNeedTarget /\ ~given
          THEN /\ Len(BuiltArgs) = n + 1
               /\ BuiltArgs[n + 1] = <<"--target=">> \o gomaReq.Target
               /\ \A i \in 1..n : ~IsTarget(BuiltArgs[i])
          ELSE Len(BuiltArgs) = n
       /\ inventory.cmdConfig.ClangNeedTarget =>
            addTargetIfNotExist(BuiltArgs, gomaReq.Target) = BuiltArgs

\* a target was appended after the -imsvc arguments of a windows_cross
\* command line that had two arguments that only look like a target
C34_Witness ==
  /\ ArgsBuilt /\ inventory.cmdConfig.ClangNeedTarget /\ Imsvc = 2
  /\ gomaReq.Arg = <<<<"clang">>, <<"--target">>, <<"-target=", "arm">>>>
  /\ BuiltArgs[Len(BuiltArgs)] = <<"--target=", "x86_64">>

\* the client's -target kept clang_need_target from adding one
C34_WitnessGiven ==
  /\ ArgsBuilt /\ inventory.cmdConfig.ClangNeedTarget
  /\ gomaReq.Arg = <<<<"clang">>, <<"-c">>, <<"-target">>>>
  /\ Len(BuiltArgs) = 3

\* an empty target was added as --target=
C34_WitnessEmpty ==
  /\ ArgsBuilt /\ inventory.cmdConfig.ClangNeedTarget /\ gomaReq.Target = <<>>
  /\ BuiltArgs[Len(BuiltArgs)] = <<"--target=">> /\ Len(BuiltArgs) = Len(gomaReq.Arg) + 1

-----------------------------------------------------------------------------
(* Properties of buildArgs under windows_cross.                            *)

\* the -imsvc arguments of the INCLUDE entry of the model's environments
ImsvcOf(e) ==
  IF e = <<"INCLUDE", "=", "C:", "\\", "inc", ";", "D:", "\\", "sdk">>
  THEN <<<<"-imsvc", "/", "inc">>, <<"-imsvc", "/", "sdk">>>>
  ELSE <<>>

\* those of a list of entries, in the order of the entries
ImsvcArgs(envs) ==
  IF Len(envs) = 0 THEN <<>>
  ELSE IF Len(envs) = 1 THEN ImsvcOf(envs[1])
  ELSE ImsvcOf(envs[1]) \o ImsvcOf(envs[2]) \o
       (IF Len(envs) > 2 THEN ImsvcOf(envs[3]) ELSE <<>>)

\* no variable of the Command is named INCLUDE or LIB
NoIncludeLib ==
  \A i \in 1..Len(r.command.EnvironmentVariables) :
    r.command.EnvironmentVariables[i].Name \notin {<<"INCLUDE">>, <<"LIB">>}

\* C35: under windows_cross the command line is the client's arguments,
\* as the loop over them leaves them, followed by one -imsvc<posix path>
\* for every path of every INCLUDE=
\* entry, in order; the request's environment is left with the entries
\* that start with neither INCLUDE= nor LIB=, in their order, before the
\* wrapper's environment is made, and the Command has no variable INCLUDE
\* or LIB; without windows_cross the arguments and the environment stay
C35_IncludeBecomesImsvc ==
  WrapperMade =>
    IF WindowsCross
    THEN /\ SubSeq(BuiltArgs, 2, Len(BuiltArgs)) =
              crossArgs(Tail(gomaReq.Arg), FALSE) \o ImsvcArgs(gomaReq.Env)
         /\ r.reqEnv = NotStarting(gomaReq.Env, IncludeLib)
         /\ \A i \in 2..Len(r.envs) : \A q \in IncludeLib : ~HasPrefix(r.envs[i], q)
         /\ r.command.set => NoIncludeLib
    ELSE /\ SubSeq(BuiltArgs, 2, Len(BuiltArgs)) = Tail(gomaReq.Arg)
         /\ r.reqEnv = gomaReq.Env

\* a Command under windows_cross for a client that sent LIB and INCLUDE
C35_Witness ==
  /\ r.command.set /\ WindowsCross
  /\ gomaReq.Env = <<<<"LIB", "=", "C:", "\\", "lib">>,
                     <<"INCLUDE", "=", "C:", "\\", "inc", ";", "D:", "\\", "sdk">>>>
  /\ BuiltArgs = <<<<"/bin/clang-cl">>, <<"-c">>, <<"a.c">>,
                   <<"-imsvc", "/", "inc">>, <<"-imsvc", "/", "sdk">>>>
  /\ r.reqEnv = <<>>

\* without windows_cross the INCLUDE entry stayed in the environment
C35_WitnessNative ==
  /\ r.command.set /\ ~WindowsCross /\ r.wrapper = "wrapperWinInputRootAbsolutePath"
  /\ gomaReq.Env = <<<<"INCLUDE", "=", "C:", "\\", "inc", ";", "D:", "\\", "sdk">>>>
  /\ ~NoIncludeLib /\ Len(BuiltArgs) = 3

-----------------------------------------------------------------------------
(* Properties of the command files in the tree.                            *)

\* the entries of command files set in the tree
CmdEntries == SelectSeq(r.files, LAMBDA e : e.of = "cmd")

SymlinkAllowed == f.SymlinkAbsolutePathStrategy = "ALLOWED"

\* the non-symlink toolchain specs of a request with its toolchain included
Included ==
  IF gomaReq.ToolchainIncluded
  THEN {gomaReq.ToolchainSpecs[i].Path : i \in {j \in 1..Len(gomaReq.ToolchainSpecs) :
                                                  gomaReq.ToolchainSpecs[j].SymlinkPath = ""}}
  ELSE {}

\* the command files the loop looks at
Looked == SelectSeq(inventory.cmdFiles, LAMBDA spec : spec.Path \notin Included)

\* a link with an absolute target whose own directory is not absolute
Unrewritable(spec) == spec.Path = "bin/cxx"

\* the command files under the root
UnderRoot(spec) == spec.Path \notin {"/bin/clang", "/usr/bin/ar"}

\* the name of a command file under the root /work
NameUnderRoot(spec) ==
  CASE spec.Path = "/work/bin/cc" -> <<"bin", "/", "cc">>
    [] spec.Path = "/work/bin/ld" -> <<"bin", "/", "ld">>
    [] spec.Path = "/work/bin/as" -> <<"bin", "/", "as">>
    [] spec.Path = "/work/bin/real" -> <<"bin", "/", "real">>
    [] spec.Path = "bin/cxx" ->
         IF r.wd = <<".">> THEN <<"bin", "/", "cxx">>
         ELSE r.wd \o <<"/", "bin", "/", "cxx">>

\* the target of a link relative to the directory of the link
RelativeTarget(spec) ==
  CASE spec.Path = "/work/bin/cc" -> <<"gcc">>
    [] spec.Path = "/work/bin/ld" ->
         <<"..", "/", "..", "/", "usr", "/", "bin", "/", "ld">>
    [] spec.Path = "/work/bin/as" -> <<"gas">>
    [] spec.Path = "/work/bin/real" -> <<>>

\* C36: unless the backend allows absolute symlinks, no command file is
\* in the tree with an absolute target: every absolute target is made
\* relative to the directory of its link, and a link that cannot be
\* rewritten fails the request with a recorded error instead of being
\* left out; when the backend allows them the targets stay; the command
\* files that are non-symlink toolchain specs of a toolchain-included
\* request are not added
C36_AbsoluteSymlinksRewritten ==
  HasRun("newInputTree") =>
    LET stuck == ~SymlinkAllowed /\ \E i \in 1..Len(Looked) : Unrewritable(Looked[i])
        added == SelectSeq(Looked, UnderRoot)
    IN /\ ~SymlinkAllowed =>
            \A i \in 1..Len(CmdEntries) : ~filepathIsAbs(CmdEntries[i].Target)
       /\ IF stuck
          THEN r.err = SymlinkErr /\ r.inputRootDigest = "nil" /\ CmdEntries = <<>>
          ELSE /\ r.err = Nil
               /\ Len(CmdEntries) = Len(added)
               /\ \A i \in 1..Len(added) :
                    /\ CmdEntries[i].Name = NameUnderRoot(added[i])
                    /\ CmdEntries[i].Target =
                         IF SymlinkAllowed THEN PathPieces[added[i].Symlink]
                         ELSE RelativeTarget(added[i])

\* a link to a file outside the root was rewritten to climb out of the
\* directory of the link
C36_Witness ==
  /\ HasRun("newInputTree") /\ ~SymlinkAllowed /\ r.err = Nil
  /\ Len(CmdEntries) = 2
  /\ CmdEntries[1].Target = <<"..", "/", "..", "/", "usr", "/", "bin", "/", "ld">>
  /\ CmdEntries[2].Target = <<"gcc">>

\* a link with a relative name failed the request
C36_WitnessStuck ==
  /\ HasRun("newInputTree") /\ ~SymlinkAllowed /\ r.err = SymlinkErr
  /\ Len(inventory.cmdFiles) = 3 /\ inventory.cmdFiles[2].Path = "/work/bin/cc"
  /\ r.files # <<>>

\* the backend allows absolute targets and one is in the tree
C36_WitnessAllowed ==
  /\ HasRun("newInputTree") /\ SymlinkAllowed /\ r.err = Nil
  /\ Len(CmdEntries) = 2 /\ CmdEntries[2].Name = <<"out", "/", "Release", "/", "bin", "/", "cxx">>
  /\ CmdEntries[2].Target = <<"/", "work", "/", "bin", "/", "gcc">>

\* the toolchain of the request is included and names the file: it is
\* not added from the command files, the symlink of the toolchain is
C36_WitnessIncluded ==
  /\ HasRun("newInputTree") /\ gomaReq.ToolchainIncluded /\ r.err = Nil
  /\ Len(inventory.cmdFiles) = 3
  /\ inventory.cmdFiles[2].Path = "/work/bin/real"
  /\ inventory.cmdFiles[3].Path = "/work/bin/cc"
  /\ Len(CmdEntries) = 1 /\ CmdEntries[1].Name = <<"bin", "/", "cc">>

-----------------------------------------------------------------------------
(* Properties of the Command's environment.                                *)

\* the variables of the Command with the name
Variables(name) ==
  SelectSeq(r.command.EnvironmentVariables, LAMBDA v : v.Name = name)

\* the client sent an entry for the name
ClientSent(name) ==
  \E i \in 1..Len(gomaReq.Env) : HasPrefix(gomaReq.Env[i], <<name, "=">>)

\* C37: the Command has one variable WORK_DIR, and its value is the
\* working directory relative to the root ("." for the root itself, in
\* POSIX form under windows_cross), whatever the client's environment is
C37_WorkDirIsServers ==
  r.command.set =>
    /\ Len(Variables(<<"WORK_DIR">>)) = 1
    /\ Variables(<<"WORK_DIR">>)[1].Value = WorkDir

\* the client's WORK_DIR=/x is the value in the Command of a request
\* whose working directory is out/Release
C37_Witness ==
  /\ r.command.set /\ ClientSent("WORK_DIR")
  /\ r.wrapper = "wrapperRelocatable"
  /\ WorkDir = <<"out", "/", "Release">>
  /\ r.envs[1] = <<"WORK_DIR", "=", "out", "/", "Release">>
  /\ Variables(<<"WORK_DIR">>) = <<EnvVar(<<"WORK_DIR">>, <<"/x">>)>>

-----------------------------------------------------------------------------
(* Properties of the tree.                                                 *)

\* tree.Build returned the root
TreeBuilt == r.inputRootDigest = "root"

\* the entry of the tree at a name: the last one set there
EntryAt(name) ==
  LET at == {i \in 1..Len(r.files) : r.files[i].Name = name}
  IN r.files[CHOOSE i \in at : \A j \in at : j <= i]

\* C38: in a tree that was built the entry at the path of the wrapper,
\* the first argument of the command line, is the wrapper of the server,
\* whatever the names of the inputs, of the command files and of the
\* directories are
C38_WrapperAtItsPath == TreeBuilt => EntryAt(FirstWrapper).of = "wrapper"

\* the tree was built and at the path of the wrapper it has the input
\* run.sh of the client
C38_Witness ==
  /\ TreeBuilt /\ r.err = Nil /\ pc = "setupNewAction"
  /\ gomaReq.Input = <<Input("run.sh", FALSE, "k1")>>
  /\ r.args[1] = <<".", "/", "run.sh">>
  /\ FirstWrapper = <<"run.sh">>
  /\ r.files = <<[Name |-> <<"run.sh">>, of |-> "wrapper"],
                 [Name |-> <<"run.sh">>, of |-> "input"]>>

-----------------------------------------------------------------------------
(* Properties of the assembly of the Command.                              *)

\* the entries of the environment handed to newCommand that have no "="
Bare == SelectSeq(r.envs, LAMBDA e : IndexOf(e, "=") = 0)

\* C39: the assembly of the Command never panics, whatever entries of the
\* client the strategy forwards; once setupNewAction has run, an entry
\* without a "=" has given a variable of the Command or the request has a
\* recorded error
C39_AssemblyNeverPanics ==
  /\ ~r.panicked
  /\ (HasRun("setupNewAction") /\ Bare # <<>>) =>
       \/ r.err # Nil
       \/ r.command.set /\ \A i \in 1..Len(Bare) : Variables(Bare[i]) # <<>>

\* setupNewAction panicked on the client's entry PATH: there is no
\* Command, no recorded error, and nothing was returned for the stage
C39_Witness ==
  /\ r.panicked /\ pc = "panic"
  /\ gomaReq.Env = <<<<"PATH">>>>
  /\ r.envs = <<<<"WORK_DIR", "=", ".">>, <<"PATH">>>>
  /\ ~r.command.set /\ r.err = Nil /\ ret.by = "newInputTree"

-----------------------------------------------------------------------------
(* Properties of the exit status of the response.                          *)

\* newResp returned the response
RespReturned == ret.by = "newResp" /\ ret.hasResp

\* the fetches of the byte stream newResp issued
Fetches == SelectSeq(calls, LAMBDA c : c[1] = "ByteStream.Read")

\* a path of an output could not be made relative to the working
\* directory and the response has the message
PathMessage ==
  \E i \in 1..Len(r.gomaResp.ErrorMessage) : r.gomaResp.ErrorMessage[i][1] = "output path"

\* newResp stopped at the fetch of an output file or directory
FetchStopped ==
  /\ Fetches # <<>>
  /\ LET last == Fetches[Len(Fetches)]
     IN last[2] \in {"file", "directory"} /\ last[3] # "OK"

\* the result is the docker failure: exit code 127 and the text in the
\* stdout that was fetched
DockerFailure ==
  /\ eresp.Result.docker /\ eresp.Result.ExitCode = 127
  /\ Fetches # <<>> /\ Fetches[1] = Fetch("stdout", "OK")

\* never an exit status together with an error message, and a fetch of
\* an output that fails is recorded and returned through Err
ExitOrMessages ==
  /\ ~(r.gomaResp.ExitStatusSet /\ r.gomaResp.ErrorMessage # <<>>)
  /\ r.gomaResp.ExitStatusSet => r.gomaResp.ExitStatus = eresp.Result.ExitCode
  /\ FetchStopped =>
       /\ r.err = StatusErr(Fetches[Len(Fetches)][3], Fetches[Len(Fetches)][2])
       /\ ret.err = Err(r.err) /\ ret.err # Nil

\* C40 as stated: a response newResp returns never has both an exit
\* status and an error message; the exit status is copied exactly when
\* the Status is OK, a Result is present and no conversion of an output
\* path appended a message; a failed fetch of an output is recorded in
\* r.err and returned through Err
C40_ExitStatusIffClean ==
  RespReturned =>
    /\ ExitOrMessages
    /\ r.gomaResp.ExitStatusSet <=>
         (eresp.Status = "OK" /\ eresp.Result.present /\ ~PathMessage)

\* C40 as amended: as stated, except that the exit status is copied
\* exactly when, besides, every fetch of stdout, stderr and of the
\* outputs succeeded and the result is not the docker failure
C40_ExitStatusIffAllFetched ==
  RespReturned =>
    /\ ExitOrMessages
    /\ r.gomaResp.ExitStatusSet <=>
         /\ eresp.Status = "OK" /\ eresp.Result.present /\ ~PathMessage
         /\ \A i \in 1..Len(Fetches) : Fetches[i][3] = "OK"
         /\ ~DockerFailure

\* the exit code 1 was copied after two outputs were fetched
C40_Witness ==
  /\ RespReturned /\ r.gomaResp.ExitStatusSet /\ r.gomaResp.ExitStatus = 1
  /\ r.gomaResp.ErrorMessage = <<>> /\ ret.err = Nil
  /\ Len(Fetches) = 4

\* the fetch of an output file failed: no exit status, no message, and the
\* failure is the error of the request
C40_WitnessStopped ==
  /\ RespReturned /\ FetchStopped /\ ~r.gomaResp.ExitStatusSet
  /\ eresp.Status = "OK" /\ eresp.Result.present
  /\ r.gomaResp.ErrorMessage = <<>> /\ Code(r.err) = "NotFound"
====
